---------------------------- MODULE Spec2Model ----------------------------
(***************************************************************************)
(* A model of the Firecrawl scraping client: the fetch orchestrator        *)
(* FirecrawlService.scrapeWebsite and the content normalizer               *)
(* FirecrawlService.parseFirecrawlData (src/unnamed/part_002, lines        *)
(* 1-279, the current revision of src/services/FirecrawlService.ts).       *)
(*                                                                         *)
(* Strings are TLC strings, read character by character: Len, SubSeq and   *)
(* \o act on them as on sequences.  The platform functions the code calls  *)
(* (String.prototype methods, RegExp matching, the WHATWG URL parser,      *)
(* decodeURIComponent) are modelled by what they compute on the ASCII      *)
(* alphabet the inputs below are written in.                               *)
(***************************************************************************)
EXTENDS Integers, Sequences, FiniteSets, TLC

(***************************************************************************)
(* String primitives (ECMAScript String.prototype)                         *)
(***************************************************************************)
\* s.charAt(i-1): the character at position i (1-based), "" outside the string.
Ch(s, i) == IF i >= 1 /\ i <= Len(s) THEN SubSeq(s, i, i) ELSE ""

Min(a, b) == IF a <= b THEN a ELSE b

\* s.substring(i-1): the characters from position i (1-based) to the end.
From(s, i) == SubSeq(s, i, Len(s))

\* the characters before position i (1-based).
Upto(s, i) == SubSeq(s, 1, i - 1)

UpperS == "ABCDEFGHIJKLMNOPQRSTUVWXYZ"

LowerS == "abcdefghijklmnopqrstuvwxyz"

DigitS == "0123456789"

UpperSet == {Ch(UpperS, k) : k \in 1..26}

LowerSet == {Ch(LowerS, k) : k \in 1..26}

DigitSet == {Ch(DigitS, k) : k \in 1..10}

AlphaSet == UpperSet \cup LowerSet

\* the lower-case and the upper-case form of a character
LowerCh(c) ==
  IF c \in UpperSet THEN Ch(LowerS, CHOOSE k \in 1..26 : Ch(UpperS, k) = c) ELSE c

UpperCh(c) ==
  IF c \in LowerSet THEN Ch(UpperS, CHOOSE k \in 1..26 : Ch(LowerS, k) = c) ELSE c

RECURSIVE ToLowerCase(_)
ToLowerCase(s) ==
  IF s = "" THEN "" ELSE LowerCh(Ch(s, 1)) \o ToLowerCase(From(s, 2))

RECURSIVE ToUpperCase(_)
ToUpperCase(s) ==
  IF s = "" THEN "" ELSE UpperCh(Ch(s, 1)) \o ToUpperCase(From(s, 2))

\* s.startsWith(pre, i-1): pre occurs in s at position i, case-sensitively.
MatchAt(s, pre, i) ==
  /\ i >= 1
  /\ i + Len(pre) - 1 <= Len(s)
  /\ SubSeq(s, i, i + Len(pre) - 1) = pre

\* the same for a literal of a regular expression with the i flag
\* (pre is written in lower case).
MatchAtCI(s, pre, i) ==
  /\ i >= 1
  /\ i + Len(pre) - 1 <= Len(s)
  /\ ToLowerCase(SubSeq(s, i, i + Len(pre) - 1)) = pre

StartsWith(s, pre) == MatchAt(s, pre, 1)

EndsWith(s, suf) == MatchAt(s, suf, Len(s) - Len(suf) + 1)

\* the least position >= i of s holding a character of set cs; Len(s)+1 if none.
FirstIn(s, cs, i) ==
  LET hits == {k \in i..Len(s) : Ch(s, k) \in cs}
  IN  IF hits = {} THEN Len(s) + 1 ELSE CHOOSE k \in hits : \A j \in hits : k <= j

AllIn(s, cs) == \A k \in 1..Len(s) : Ch(s, k) \in cs

\* \s of a regular expression and the white space of String.prototype.trim,
\* on the ASCII alphabet of the inputs (space; tab and line breaks do not
\* occur in them).
WhiteSpace == {" "}

RECURSIVE TrimStart(_)
TrimStart(s) ==
  IF s # "" /\ Ch(s, 1) \in WhiteSpace THEN TrimStart(From(s, 2)) ELSE s

RECURSIVE TrimEnd(_)
TrimEnd(s) ==
  IF s # "" /\ Ch(s, Len(s)) \in WhiteSpace THEN TrimEnd(Upto(s, Len(s))) ELSE s

Trim(s) == TrimEnd(TrimStart(s))

\* s.split(c) for a one-character separator: the sequence of pieces.
RECURSIVE Split(_, _)
Split(s, c) ==
  LET k == FirstIn(s, {c}, 1)
  IN  IF k > Len(s) THEN <<s>> ELSE <<Upto(s, k)>> \o Split(From(s, k + 1), c)

\* pieces.join(c)
RECURSIVE Join(_, _)
Join(pieces, c) ==
  IF pieces = <<>> THEN ""
  ELSE IF Len(pieces) = 1 THEN pieces[1]
  ELSE pieces[1] \o c \o Join(Tail(pieces), c)

(***************************************************************************)
(* Percent-encoding (URL Standard, section 1.3) and decodeURIComponent     *)
(* (ECMA-262, 19.2.6.5), on ASCII.                                         *)
(***************************************************************************)
HexS == "0123456789ABCDEF"

HexSet == DigitSet \cup {"A", "B", "C", "D", "E", "F", "a", "b", "c", "d", "e", "f"}

HexVal(c) == CHOOSE v \in 0..15 : Ch(HexS, v + 1) = UpperCh(c)

\* the printable ASCII characters in code order: codes 32 (space) to 95, and
\* codes 97 to 126 (~).  Code 96, the grave accent, cannot be written in a
\* string of this language and is outside the alphabet of the inputs.
AsciiLo == " !\"#$%&'()*+,-./0123456789:;<=>?@ABCDEFGHIJKLMNOPQRSTUVWXYZ[\\]^_"

AsciiHi == "abcdefghijklmnopqrstuvwxyz{|}~"

CharOfCode(n) == IF n < 96 THEN Ch(AsciiLo, n - 31) ELSE Ch(AsciiHi, n - 96)

AsciiCodes == (32..126) \ {96}

CodeOf == [c \in {CharOfCode(n) : n \in AsciiCodes} |->
             CHOOSE n \in AsciiCodes : CharOfCode(n) = c]

\* "%XX" for the character c.
PctOf(c) ==
  "%" \o Ch(HexS, (CodeOf[c] \div 16) + 1) \o Ch(HexS, (CodeOf[c] % 16) + 1)

\* UTF-8 percent-encode every character of s that lies in the encode set cs.
RECURSIVE PctEncode(_, _)
PctEncode(s, cs) ==
  IF s = "" THEN ""
  ELSE (IF Ch(s, 1) \in cs THEN PctOf(Ch(s, 1)) ELSE Ch(s, 1))
         \o PctEncode(From(s, 2), cs)

\* a "%XX" at position i of s that names a printable ASCII character.
IsPctAscii(s, i) ==
  /\ i + 2 <= Len(s)
  /\ Ch(s, i) = "%"
  /\ Ch(s, i + 1) \in HexSet
  /\ Ch(s, i + 2) \in HexSet
  /\ 16 * HexVal(Ch(s, i + 1)) + HexVal(Ch(s, i + 2)) \in AsciiCodes

PctChar(s, i) ==
  CharOfCode(16 * HexVal(Ch(s, i + 1)) + HexVal(Ch(s, i + 2)))

\* decodeURIComponent throws URIError on a "%" that does not start a valid
\* escape.  An escape of a byte outside 32..126 is a control character or part
\* of a multi-byte UTF-8 sequence; a lone such byte is malformed, and complete
\* multi-byte sequences are outside the alphabet of the inputs.
RECURSIVE DecodeOk(_)
DecodeOk(s) ==
  \/ s = ""
  \/ /\ Ch(s, 1) # "%"
     /\ DecodeOk(From(s, 2))
  \/ /\ IsPctAscii(s, 1)
     /\ DecodeOk(From(s, 4))

RECURSIVE DecodeURIComponent(_)
DecodeURIComponent(s) ==
  IF s = "" THEN ""
  ELSE IF IsPctAscii(s, 1) THEN PctChar(s, 1) \o DecodeURIComponent(From(s, 4))
  ELSE Ch(s, 1) \o DecodeURIComponent(From(s, 2))

\* the URL Standard's percent-decode: an invalid escape is left as it is.
RECURSIVE PercentDecode(_)
PercentDecode(s) ==
  IF s = "" THEN ""
  ELSE IF IsPctAscii(s, 1) THEN PctChar(s, 1) \o PercentDecode(From(s, 4))
  ELSE Ch(s, 1) \o PercentDecode(From(s, 2))

(***************************************************************************)
(* The WHATWG URL parser and serializer (new URL(input, base).href), for   *)
(* URLs without credentials, backslashes, tabs or line breaks, with a      *)
(* domain host that is no IPv4 or IPv6 literal, and no file: scheme.       *)
(***************************************************************************)
DefaultPort ==
  [http |-> "80", https |-> "443", ftp |-> "21", ws |-> "80", wss |-> "443"]

IsSpecial(scheme) == scheme \in DOMAIN DefaultPort

\* the parser's failure; new URL throws TypeError on it.
Failure == [ok |-> FALSE]

\* the position of the ":" that ends a scheme at the start of s; 0 if s starts
\* with no scheme (scheme start state, scheme state).
SchemeEnd(s) ==
  LET k == FirstIn(s, {":"}, 1)
  IN  IF s # "" /\ Ch(s, 1) \in AlphaSet /\ k <= Len(s)
         /\ AllIn(Upto(s, k), AlphaSet \cup DigitSet \cup {"+", "-", "."})
      THEN k ELSE 0

\* shorten a path: drop its last segment, if any.
Shorten(path) ==
  IF path = <<>> THEN <<>> ELSE SubSeq(path, 1, Len(path) - 1)

\* path state: the segments segs (the input split at "/") appended to path; a
\* double-dot segment shortens the path, a single-dot segment adds nothing, any
\* other is percent-encoded with the path percent-encode set.
RECURSIVE PathSegs(_, _)
PathSegs(path, segs) ==
  LET seg  == Head(segs)
      last == Len(segs) = 1
      p2   == IF ToLowerCase(seg) \in {"..", ".%2e", "%2e.", "%2e%2e"}
                THEN (IF last THEN Append(Shorten(path), "") ELSE Shorten(path))
              ELSE IF ToLowerCase(seg) \in {".", "%2e"}
                THEN (IF last THEN Append(path, "") ELSE path)
              ELSE Append(path,
                          PctEncode(seg, {" ", "\"", "#", "<", ">", "?", "{", "}"}))
  IN  IF last THEN p2 ELSE PathSegs(p2, Tail(segs))

RECURSIVE StrToNat(_)
StrToNat(s) ==
  IF s = "" THEN 0
  ELSE 10 * StrToNat(Upto(s, Len(s))) + HexVal(Ch(s, Len(s)))

RECURSIVE NatToStr(_)
NatToStr(n) ==
  IF n < 10 THEN Ch(DigitS, n + 1)
  ELSE NatToStr(n \div 10) \o Ch(DigitS, (n % 10) + 1)

\* the part of s before its first "?" or "#" (the path), and the rest.
PathPart(s) == Upto(s, FirstIn(s, {"?", "#"}, 1))

TailPart(s) == From(s, FirstIn(s, {"?", "#"}, 1))

\* the query percent-encode set, and the special-query one
QuerySet(scheme) ==
  {" ", "\"", "#", "<", ">"} \cup (IF IsSpecial(scheme) THEN {"'"} ELSE {})

\* query state and fragment state on a tail whose "#", if any, is at position
\* f: qpart is the tail before it.
TailAt(u, tail, f, qpart, hasKeepQ, keepQ) ==
  [u EXCEPT !.hasQuery = IF StartsWith(qpart, "?") THEN TRUE ELSE hasKeepQ,
            !.query = IF StartsWith(qpart, "?")
                        THEN PctEncode(From(qpart, 2), QuerySet(u.scheme))
                      ELSE keepQ,
            !.hasFragment = f <= Len(tail),
            !.fragment = IF f <= Len(tail)
                           THEN PctEncode(From(tail, f + 1), {" ", "\"", "<", ">"})
                         ELSE ""]

\* query state and fragment state on the tail ("", "?q", "#f" or "?q#f"); a
\* tail without "?" keeps the query keepQ (hasKeepQ tells whether there is one).
WithTail(u, tail, hasKeepQ, keepQ) ==
  TailAt(u, tail, FirstIn(tail, {"#"}, 1), Upto(tail, FirstIn(tail, {"#"}, 1)),
         hasKeepQ, keepQ)

MkUrl(scheme, hasHost, host, port, path) ==
  [ok |-> TRUE, scheme |-> scheme, hasHost |-> hasHost, host |-> host,
   port |-> port, opaque |-> FALSE, path |-> path, opq |-> "",
   hasQuery |-> FALSE, query |-> "", hasFragment |-> FALSE, fragment |-> ""]

\* the host parser's failures: an empty host of a special scheme, an empty
\* host followed by ":" (emptyWithPort), a forbidden host code point (a
\* forbidden domain code point for a special scheme).
BadHost(scheme, host, emptyWithPort) ==
  \/ (IF IsSpecial(scheme) THEN host = "" ELSE emptyWithPort)
  \/ \E k \in 1..Len(host) :
       Ch(host, k) \in {" ", "#", "/", ":", "<", ">", "?", "@", "[", "\\", "]", "^", "|"}
                         \cup (IF IsSpecial(scheme) THEN {"%"} ELSE {})

PortOf(scheme, portRaw) ==
  IF portRaw = "" THEN ""
  ELSE IF IsSpecial(scheme) /\ NatToStr(StrToNat(portRaw)) = DefaultPort[scheme] THEN ""
  ELSE NatToStr(StrToNat(portRaw))

\* path start state after an authority: ppart is the input up to "?" or "#".
AuthorityPath(scheme, ppart) ==
  IF ~IsSpecial(scheme) /\ ppart = "" THEN <<>>
  ELSE PathSegs(<<>>, Split(IF StartsWith(ppart, "/") THEN From(ppart, 2) ELSE ppart, "/"))

HostUrl(scheme, host, emptyWithPort, port, rest) ==
  IF BadHost(scheme, host, emptyWithPort) THEN Failure
  ELSE WithTail(MkUrl(scheme, TRUE, host, port, AuthorityPath(scheme, PathPart(rest))),
                TailPart(rest), FALSE, "")

\* the authority auth = host[:port] whose ":", if any, is at position c: the
\* port is digits only and at most 65535; the host of a special scheme is
\* percent-decoded and lower-cased (domain to ASCII), any other host is opaque
HostPort(scheme, auth, c, rest) ==
  IF ~AllIn(From(auth, c + 1), DigitSet) \/ StrToNat(From(auth, c + 1)) > 65535
    THEN Failure
  ELSE HostUrl(scheme,
               IF IsSpecial(scheme) THEN ToLowerCase(PercentDecode(Upto(auth, c)))
               ELSE Upto(auth, c),
               Upto(auth, c) = "" /\ c <= Len(auth),
               PortOf(scheme, From(auth, c + 1)), rest)

\* the authority of s: up to its first "/", "?" or "#"
AuthorityPart(s) == Upto(s, FirstIn(s, {"/", "?", "#"}, 1))

\* authority state, host state, port state and path start state: s is the
\* input after the slashes that introduce the authority.
ParseAuthority(scheme, s) ==
  HostPort(scheme, AuthorityPart(s), FirstIn(AuthorityPart(s), {":"}, 1),
           From(s, FirstIn(s, {"/", "?", "#"}, 1)))

\* special authority ignore slashes state: every leading "/" is skipped.
RECURSIVE SkipSlashes(_)
SkipSlashes(s) == IF StartsWith(s, "/") THEN SkipSlashes(From(s, 2)) ELSE s

\* the input after "//": a special scheme ignores further slashes
AfterSlashes(scheme, s) == IF IsSpecial(scheme) THEN SkipSlashes(s) ELSE From(s, 3)

\* path state of a reference without authority: p is the reference up to "?"
\* or "#"; an absolute path replaces the base's, a relative one its last
\* segment, an empty one keeps it.
RelativePath(p, basePath) ==
  IF p = "" THEN basePath
  ELSE PathSegs(IF StartsWith(p, "/") THEN <<>> ELSE Shorten(basePath),
                Split(IF StartsWith(p, "/") THEN From(p, 2) ELSE p, "/"))

\* relative state and relative slash state: r has no scheme of its own (or the
\* special scheme of the base, not followed by "//").
ParseRelative(r, base) ==
  IF StartsWith(r, "//") THEN ParseAuthority(base.scheme, AfterSlashes(base.scheme, r))
  ELSE WithTail(MkUrl(base.scheme, base.hasHost, base.host, base.port,
                      RelativePath(PathPart(r), base.path)),
                TailPart(r),
                PathPart(r) = "" /\ base.hasQuery,
                IF PathPart(r) = "" THEN base.query ELSE "")

\* no scheme state and the states that follow a scheme: scheme is the input's
\* scheme in lower case ("" when it has none), rest the input after it.
ParseState(scheme, rest, base) ==
  IF scheme # "" /\ ~(IsSpecial(scheme) /\ base.ok /\ base.scheme = scheme
                        /\ ~StartsWith(rest, "//"))
    THEN IF IsSpecial(scheme) \/ StartsWith(rest, "//")
           THEN ParseAuthority(scheme, AfterSlashes(scheme, rest))
         ELSE WithTail(IF StartsWith(rest, "/")
                         THEN MkUrl(scheme, FALSE, "", "",
                                    PathSegs(<<>>, Split(From(PathPart(rest), 2), "/")))
                       ELSE [MkUrl(scheme, FALSE, "", "", <<>>)
                               EXCEPT !.opaque = TRUE, !.opq = PathPart(rest)],
                       TailPart(rest), FALSE, "")
  ELSE IF ~base.ok THEN Failure
  ELSE IF base.opaque
    THEN IF scheme = "" /\ StartsWith(rest, "#")
           THEN WithTail(base, rest, base.hasQuery, base.query)
         ELSE Failure
  ELSE ParseRelative(rest, base)

\* scheme start state and scheme state: k is the position of the ":" that ends
\* the scheme, 0 when the input starts with none.
ParseFrom(input, k, base) ==
  ParseState(IF k > 0 THEN ToLowerCase(Upto(input, k)) ELSE "", From(input, k + 1), base)

\* the basic URL parser; base is a parsed URL or Failure (no base).
ParseUrl(input, base) == ParseFrom(Trim(input), SchemeEnd(Trim(input)), base)

RECURSIVE PathName(_)
PathName(path) ==
  IF path = <<>> THEN "" ELSE "/" \o Head(path) \o PathName(Tail(path))

\* URL.prototype.pathname
Pathname(u) == IF u.opaque THEN u.opq ELSE PathName(u.path)

\* URL.prototype.href: the URL serializer.
Href(u) ==
  u.scheme \o ":"
    \o (IF u.hasHost
          THEN "//" \o u.host \o (IF u.port = "" THEN "" ELSE ":" \o u.port)
        ELSE IF ~u.opaque /\ Len(u.path) > 1 /\ u.path[1] = "" THEN "/."
        ELSE "")
    \o Pathname(u)
    \o (IF u.hasQuery THEN "?" \o u.query ELSE "")
    \o (IF u.hasFragment THEN "#" \o u.fragment ELSE "")

\* new URL(s): Failure stands for the TypeError thrown.
NewUrl(s) == ParseUrl(s, Failure)

\* the parse of s against a base b that was parsed itself
Against(s, b) == IF b.ok THEN ParseUrl(s, b) ELSE Failure

\* new URL(s, base)
NewUrlBase(s, base) == Against(s, ParseUrl(base, Failure))

(***************************************************************************)
(* FirecrawlService.formatFilenameAsTitle                                  *)
(***************************************************************************)
\* filename.replace(/\.pdf$/i, '')
StripPdfExt(filename) ==
  IF EndsWith(ToLowerCase(filename), ".pdf")
    THEN Upto(filename, Len(filename) - 3)
  ELSE filename

\* title.replace(/[-_.]/g, ' ')
RECURSIVE SeparatorsToSpaces(_)
SeparatorsToSpaces(s) ==
  IF s = "" THEN ""
  ELSE (IF Ch(s, 1) \in {"-", "_", "."} THEN " " ELSE Ch(s, 1))
         \o SeparatorsToSpaces(From(s, 2))

\* the kind of a character for \s and \d
CharKind(c) ==
  IF c \in WhiteSpace THEN "s" ELSE IF c \in DigitSet THEN "d" ELSE "o"

\* the kinds of the maximal runs of s, in order ("s d s d" for " 8  18").
RECURSIVE RunKinds(_)
RunKinds(s) ==
  IF s = "" THEN <<>>
  ELSE LET k    == CharKind(Ch(s, 1))
           rest == RunKinds(From(s, 2))
       IN  IF rest # <<>> /\ Head(rest) = k THEN rest ELSE <<k>> \o rest

\* t matches ^\s+\d+\s+\d+\s+\d+$ (\s and \d are disjoint, so the match is the
\* run structure of t).
IsDateTail(t) == RunKinds(t) = <<"s", "d", "s", "d", "s", "d">>

\* a variant of the date pattern that never matches
DateMatchNever(title) == 0

\* title.match(/(.+?)\s+(\d+\s+\d+\s+\d+)$/): the length of group 1, the
\* shortest non-empty prefix followed by a date tail; 0 when there is no match.
\* (A match starting later in the string implies one starting at its first
\* character, which the leftmost-match rule then prefers.)
DateMatch(title) ==
  LET cands == {a \in 1..Len(title) : IsDateTail(From(title, a + 1))}
  IN  IF cands = {} THEN 0 ELSE CHOOSE a \in cands : \A b \in cands : a <= b

\* a variant of the callback without the rule for acronyms
TitleWordCapitalized(word) ==
  IF Len(word) = 0 THEN ""
  ELSE ToUpperCase(Ch(word, 1)) \o ToLowerCase(From(word, 2))

\* the callback of title.split(' ').map(...)
TitleWord(word) ==
  IF Len(word) = 0 THEN ""
  ELSE IF word = ToUpperCase(word) /\ Len(word) > 1 THEN word
  ELSE ToUpperCase(Ch(word, 1)) \o ToLowerCase(From(word, 2))

RECURSIVE MapTitleWord(_)
MapTitleWord(words) ==
  IF words = <<>> THEN <<>>
  ELSE <<TitleWord(Head(words))>> \o MapTitleWord(Tail(words))

formatFilenameAsTitle(filename) ==
  LET t1 == SeparatorsToSpaces(StripPdfExt(filename))
      a  == DateMatch(t1)
      t2 == IF a > 0 THEN Upto(t1, a + 1) ELSE t1
  IN  Trim(Join(MapTitleWord(Split(t2, " ")), " "))

(***************************************************************************)
(* The regular expressions of parseFirecrawlData (raw-HTML mode)           *)
(***************************************************************************)
Quotes == {"\"", "'"}

\* src=["']([^"']+)["'] at position j of s: the position of the closing quote,
\* 0 when it does not match there.
SrcAttrAt(s, j) ==
  IF MatchAtCI(s, "src=", j) /\ Ch(s, j + 4) \in Quotes
    THEN LET k == FirstIn(s, Quotes, j + 5)
         IN  IF k <= Len(s) /\ k > j + 5 THEN k ELSE 0
  ELSE 0

\* imgRegex /<img[^>]+src=["']([^"']+)["'][^>]*>/gi at position i: the position
\* of the last character of the match, 0 when it does not match there.  The
\* greedy [^>]+ takes the rightmost src= it can reach without crossing a ">".
ImgMatchEnd(s, i) ==
  IF ~MatchAtCI(s, "<img", i) THEN 0
  ELSE LET gt    == FirstIn(s, {">"}, i + 4)
           cands == {j \in (i + 5)..Min(gt, Len(s)) :
                       /\ SrcAttrAt(s, j) > 0
                       /\ FirstIn(s, {">"}, SrcAttrAt(s, j) + 1) <= Len(s)}
       IN  IF cands = {} THEN 0
           ELSE LET j == CHOOSE a \in cands : \A b \in cands : a >= b
                IN  FirstIn(s, {">"}, SrcAttrAt(s, j) + 1)

\* the while loop over imgRegex.exec(html): the matches (match[0]) from
\* lastIndex = from - 1 on, in order.
RECURSIVE ImgTags(_, _)
ImgTags(s, from) ==
  LET starts == {i \in from..Len(s) : ImgMatchEnd(s, i) > 0}
  IN  IF starts = {} THEN <<>>
      ELSE LET i == CHOOSE a \in starts : \A b \in starts : a <= b
               e == ImgMatchEnd(s, i)
           IN  <<SubSeq(s, i, e)>> \o ImgTags(s, e + 1)

\* imgTag.match(/src=["']([^"']+)["']/i)[1]: the first src attribute of the tag.
SrcOf(imgTag) ==
  LET j == CHOOSE a \in 1..Len(imgTag) :
             /\ SrcAttrAt(imgTag, a) > 0
             /\ \A b \in 1..(a - 1) : SrcAttrAt(imgTag, b) = 0
  IN  SubSeq(imgTag, j + 5, SrcAttrAt(imgTag, j) - 1)

\* altRegex /alt=["']([^"']*)["']/i at position j: the closing quote, or 0.
AltAttrAt(s, j) ==
  IF MatchAtCI(s, "alt=", j) /\ Ch(s, j + 4) \in Quotes
    THEN LET k == FirstIn(s, Quotes, j + 5)
         IN  IF k <= Len(s) THEN k ELSE 0
  ELSE 0

\* (altMatch && altMatch[1]) || 'Image'
AltOf(imgTag) ==
  LET hits == {a \in 1..Len(imgTag) : AltAttrAt(imgTag, a) > 0}
  IN  IF hits = {} THEN "Image"
      ELSE LET j   == CHOOSE a \in hits : \A b \in hits : a <= b
               alt == SubSeq(imgTag, j + 5, AltAttrAt(imgTag, j) - 1)
           IN  IF alt = "" THEN "Image" ELSE alt

\* srcMatch[1].split(/[\s?]/)[0]
StripSrc(raw) == Upto(raw, FirstIn(raw, WhiteSpace \cup {"?"}, 1))

\* href=(["'])(.*?)\1 at position h of s: the position of the closing quote
\* (the next occurrence of the opening one), 0 when it does not match there.
HrefAt(s, h) ==
  IF MatchAtCI(s, "href=", h) /\ Ch(s, h + 5) \in Quotes
    THEN LET k == FirstIn(s, {Ch(s, h + 5)}, h + 6)
         IN  IF k <= Len(s) THEN k ELSE 0
  ELSE 0

\* linkRegex /<a\s+(?:[^>]*?\s+)?href=(["'])(.*?)\1/gi at position i: the
\* position h of the href= it matches, 0 when it does not match at i.  After
\* "<a" and its white space (ending before p) the optional group is tried
\* first: the nearest href= that follows white space and is reached from p
\* without crossing a ">"; only then an href= at p itself.
LinkHrefPos(s, i) ==
  IF ~(MatchAtCI(s, "<a", i) /\ Ch(s, i + 2) \in WhiteSpace) THEN 0
  ELSE LET p  == CHOOSE a \in (i + 3)..(Len(s) + 1) :
                   /\ Ch(s, a) \notin WhiteSpace
                   /\ \A b \in (i + 3)..(a - 1) : Ch(s, b) \in WhiteSpace
           gt == FirstIn(s, {">"}, p)
           G  == {h \in (p + 2)..Min(gt, Len(s)) :
                    Ch(s, h - 1) \in WhiteSpace /\ HrefAt(s, h) > 0}
       IN  IF G # {} THEN CHOOSE a \in G : \A b \in G : a <= b
           ELSE IF HrefAt(s, p) > 0 THEN p
           ELSE 0

\* the while loop over linkRegex.exec(html): for each match, match[0] and
\* match[2].
RECURSIVE LinkMatches(_, _)
LinkMatches(s, from) ==
  LET starts == {i \in from..Len(s) : LinkHrefPos(s, i) > 0}
  IN  IF starts = {} THEN <<>>
      ELSE LET i == CHOOSE a \in starts : \A b \in starts : a <= b
               h == LinkHrefPos(s, i)
               k == HrefAt(s, h)
           IN  <<[m0 |-> SubSeq(s, i, k), href |-> SubSeq(s, h + 6, k - 1)]>>
                 \o LinkMatches(s, k + 1)

\* match[0].match(/>(.*?)<\/a>/i): (titleMatch && titleMatch[1]?.trim()) || ''
LinkText(m0) ==
  LET gts == {g \in 1..Len(m0) :
                Ch(m0, g) = ">" /\ \E e \in (g + 1)..Len(m0) : MatchAtCI(m0, "</a>", e)}
  IN  IF gts = {} THEN ""
      ELSE LET g == CHOOSE a \in gts : \A b \in gts : a <= b
               e == CHOOSE a \in (g + 1)..Len(m0) :
                      /\ MatchAtCI(m0, "</a>", a)
                      /\ \A b \in (g + 1)..(a - 1) : ~MatchAtCI(m0, "</a>", b)
           IN  Trim(SubSeq(m0, g + 1, e - 1))

(***************************************************************************)
(* HTML documents.  A document is the sequence of the child nodes of its   *)
(* body; a node is a record [tag, attrs, kids, text]: an element with its  *)
(* attributes [name, value, q] (q the quote character of the markup) and   *)
(* child nodes, or a text node (tag "#text").  The markup the service      *)
(* delivers is Serialize of the document, and DOMParser.parseFromString    *)
(* of that markup is the document again: the documents below are well      *)
(* formed, without character references or comments.                       *)
(***************************************************************************)
TextNode(t) == [tag |-> "#text", attrs |-> <<>>, kids |-> <<>>, text |-> t]

Elem(tag, attrs, kids) == [tag |-> tag, attrs |-> attrs, kids |-> kids, text |-> ""]

Attr(name, value, q) == [name |-> name, value |-> value, q |-> q]

RECURSIVE SerializeAttrs(_)
SerializeAttrs(attrs) ==
  IF attrs = <<>> THEN ""
  ELSE " " \o Head(attrs).name \o "=" \o Head(attrs).q \o Head(attrs).value
         \o Head(attrs).q \o SerializeAttrs(Tail(attrs))

RECURSIVE SerializeNodes(_)
SerializeNodes(nodes) ==
  IF nodes = <<>> THEN ""
  ELSE LET n == Head(nodes)
       IN  (IF n.tag = "#text" THEN n.text
            ELSE IF n.tag \in {"img", "br", "hr"} THEN "<" \o n.tag \o SerializeAttrs(n.attrs) \o ">"
            ELSE "<" \o n.tag \o SerializeAttrs(n.attrs) \o ">"
                   \o SerializeNodes(n.kids) \o "</" \o n.tag \o ">")
             \o SerializeNodes(Tail(nodes))

\* the markup of a document; the empty document stands for an absent (or
\* empty) html string.
Serialize(doc) ==
  IF doc = <<>> THEN "" ELSE "<body>" \o SerializeNodes(doc) \o "</body>"

\* Node.textContent
RECURSIVE TextContent(_)
TextContent(nodes) ==
  IF nodes = <<>> THEN ""
  ELSE (IF Head(nodes).tag = "#text" THEN Head(nodes).text
        ELSE TextContent(Head(nodes).kids))
         \o TextContent(Tail(nodes))

\* doc.querySelectorAll('script, style, ...').forEach(script => script.remove())
RECURSIVE RemoveNonContent(_)
RemoveNonContent(nodes) ==
  IF nodes = <<>> THEN <<>>
  ELSE LET n == Head(nodes)
       IN  (IF n.tag \in {"script", "style", "noscript", "iframe", "nav", "header",
                         "footer"}
              THEN <<>>
            ELSE <<[n EXCEPT !.kids = RemoveNonContent(n.kids)]>>)
             \o RemoveNonContent(Tail(nodes))

\* the elements below a node list, in document order.
RECURSIVE Descendants(_)
Descendants(nodes) ==
  IF nodes = <<>> THEN <<>>
  ELSE (IF Head(nodes).tag = "#text" THEN <<>> ELSE <<Head(nodes)>>)
         \o Descendants(Head(nodes).kids) \o Descendants(Tail(nodes))

\* element.getAttribute(name), "" when absent (the first of equal names counts).
RECURSIVE GetAttr(_, _)
GetAttr(attrs, name) ==
  IF attrs = <<>> THEN ""
  ELSE IF Head(attrs).name = name THEN Head(attrs).value
  ELSE GetAttr(Tail(attrs), name)

HasClass(n, c) == \E k \in DOMAIN Split(GetAttr(n.attrs, "class"), " ") :
                    Split(GetAttr(n.attrs, "class"), " ")[k] = c

\* the selector 'main, article, [role="main"], .main, .content, .post'
IsMainContent(n) ==
  \/ n.tag \in {"main", "article"}
  \/ GetAttr(n.attrs, "role") = "main"
  \/ HasClass(n, "main")
  \/ HasClass(n, "content")
  \/ HasClass(n, "post")

\* a variant of the choice of the container that always takes the body
MainContentKidsBody(doc) == doc

\* doc.querySelector(main selector) || doc.body: the child nodes of the chosen
\* container.
MainContentKids(doc) ==
  LET all  == Descendants(doc)
      hits == {k \in DOMAIN all : IsMainContent(all[k])}
  IN  IF hits = {} THEN doc
      ELSE all[CHOOSE k \in hits : \A j \in hits : k <= j].kids

\* the selector 'h1, h2, h3, h4, h5, h6, p, li, td, th, blockquote, pre, code'
IsContentElement(n) ==
  n.tag \in {"h1", "h2", "h3", "h4", "h5", "h6", "p", "li", "td", "th", "blockquote",
             "pre", "code"}

\* mainContent.querySelectorAll('h1, h2, ..., code')
ContentElements(doc) ==
  SelectSeq(Descendants(MainContentKids(RemoveNonContent(doc))), IsContentElement)

\* the length test of the forEach callback
LongEnough(text) == Len(text) > 10

\* contentElements.forEach(...): the texts pushed, given those already seen.
RECURSIVE CollectText(_, _)
CollectText(els, seenText) ==
  IF els = <<>> THEN <<>>
  ELSE LET text == Trim(TextContent(Head(els).kids))
       IN  IF text # "" /\ text \notin seenText /\ LongEnough(text)
             THEN <<text>> \o CollectText(Tail(els), seenText \cup {text})
           ELSE CollectText(Tail(els), seenText)

\* html.replace(/<[^>]*>/g, ' ')
RECURSIVE StripTags(_)
StripTags(s) ==
  LET lt == FirstIn(s, {"<"}, 1)
      gt == FirstIn(s, {">"}, lt + 1)
  IN  IF lt > Len(s) THEN s
      ELSE IF gt > Len(s) THEN s
      ELSE Upto(s, lt) \o " " \o StripTags(From(s, gt + 1))

\* s.replace(/\s+/g, ' ')
RECURSIVE CollapseSpaces(_)
CollapseSpaces(s) ==
  IF s = "" THEN ""
  ELSE IF Ch(s, 1) \in WhiteSpace
    THEN " " \o CollapseSpaces(TrimStart(s))
  ELSE Ch(s, 1) \o CollapseSpaces(From(s, 2))

\* the catch branch of the text extraction
FallbackText(html) ==
  LET text == Trim(CollapseSpaces(StripTags(html)))
  IN  IF text # "" THEN <<text>> ELSE <<>>

(***************************************************************************)
(* FirecrawlService.parseFirecrawlData(data, url)                          *)
(*                                                                         *)
(* data is the payload record                                              *)
(*   [kind, hasExtracted, extractedData, html, rawHtml, title, description]*)
(* with kind "object", or kind "undefined" for a response without data.    *)
(* An absent string field is "", an absent array <<>> (the code tests both *)
(* by truthiness or falls back to []).  html and rawHtml are documents.    *)
(* env is what the platform contributes to a call: the clock (now) and     *)
(* whether the DOM calls work (dom = "ok"), throw from the first one on    *)
(* (dom = "throws": no DOMParser), or throw during the traversal, in the   *)
(* second call of the forEach callback (dom = "breaks").                   *)
(* The value is [threw |-> FALSE, value |-> the object returned] or        *)
(* [threw |-> TRUE, error |-> the message of the exception].               *)
(***************************************************************************)
Returned(v) == [threw |-> FALSE, value |-> v]

Thrown(msg) == [threw |-> TRUE, error |-> msg]

\* JavaScript's || on strings
OrElse(a, b) == IF a # "" THEN a ELSE b

\* if (x) textContent.push(x)
PushIf(x) == IF x # "" THEN <<x>> ELSE <<>>

\* what one turn of a loop leaves: the items pushed, and whether an exception
\* leaves the turn
Pushed(items) == [threw |-> FALSE, push |-> items]

Escaped == [threw |-> TRUE, push |-> <<>>]

\* try { ... } catch (e) { console.warn(...) }: nothing is pushed by a turn
\* whose try block threw, and the exception goes no further.
Caught(turn) == IF turn.threw THEN Pushed(<<>>) ELSE turn

\* the href of a parsed URL; ok = FALSE when new URL threw
HrefOf(u) == IF u.ok THEN [ok |-> TRUE, href |-> Href(u)] ELSE [ok |-> FALSE, href |-> ""]

\* a variant of the resolution that takes the address of the service as base
AbsoluteUrlAgainstEndpoint(ref, url) ==
  IF StartsWith(ref, "http") THEN [ok |-> TRUE, href |-> ref]
  ELSE HrefOf(NewUrlBase(ref, "https://api.firecrawl.dev/v0/scrape"))

\* src.startsWith('http') ? src : new URL(src, url).href, with ok = FALSE when
\* new URL throws.
AbsoluteUrl(ref, url) ==
  IF StartsWith(ref, "http") THEN [ok |-> TRUE, href |-> ref]
  ELSE HrefOf(NewUrlBase(ref, url))

\* images.push({ src: absoluteSrc, alt })
ImagePush(abs, alt) ==
  IF abs.ok THEN Pushed(<<[src |-> abs.href, alt |-> alt]>>) ELSE Escaped

\* the try block of the image loop
ImageTry(imgTag, url) ==
  ImagePush(AbsoluteUrl(StripSrc(SrcOf(imgTag)), url), AltOf(imgTag))

\* a variant of the image loop's turn without its try/catch: the exception of
\* new URL leaves the loop
ImageItemUncaught(imgTag, url) == ImageTry(imgTag, url)

\* one turn of the image loop
ImageItem(imgTag, url) == Caught(ImageTry(imgTag, url))

\* pathParts[pathParts.length - 1]
LastPart(pathParts) == pathParts[Len(pathParts)]

\* title = formatFilenameAsTitle(decodeURIComponent(filename)), and the push
PdfNamed(href, filename) ==
  IF DecodeOk(filename)
    THEN Pushed(<<[href |-> href,
                   title |-> formatFilenameAsTitle(DecodeURIComponent(filename))]>>)
  ELSE Escaped

\* the branch if (!title): urlObj is new URL(absoluteHref)
PdfUntitled(href, urlObj) ==
  IF urlObj.ok THEN PdfNamed(href, LastPart(Split(Pathname(urlObj), "/")))
  ELSE Escaped

PdfPush(abs, title) ==
  IF ~abs.ok THEN Escaped
  ELSE IF title # "" THEN Pushed(<<[href |-> abs.href, title |-> title]>>)
  ELSE PdfUntitled(abs.href, NewUrl(abs.href))

\* the try block of the PDF loop, for the match m = [m0, href]
PdfTry(m, url) == PdfPush(AbsoluteUrl(m.href, url), LinkText(m.m0))

\* href.toLowerCase().endsWith('.pdf')
IsPdfHref(href) == EndsWith(ToLowerCase(href), ".pdf")

\* one turn of the PDF loop
PdfItem(m, url) == IF IsPdfHref(m.href) THEN Caught(PdfTry(m, url)) ELSE Pushed(<<>>)

\* a loop from its first turn on: [threw, list]
LoopFrom(turn, rest) ==
  IF turn.threw \/ rest.threw THEN [threw |-> TRUE, list |-> <<>>]
  ELSE [threw |-> FALSE, list |-> turn.push \o rest.list]

\* the image loop over the matches of imgRegex
RECURSIVE ImageLoop(_, _)
ImageLoop(tags, url) ==
  IF tags = <<>> THEN [threw |-> FALSE, list |-> <<>>]
  ELSE LoopFrom(ImageItem(Head(tags), url), ImageLoop(Tail(tags), url))

\* the PDF loop over the matches of linkRegex
RECURSIVE PdfLoop(_, _)
PdfLoop(ms, url) ==
  IF ms = <<>> THEN [threw |-> FALSE, list |-> <<>>]
  ELSE LoopFrom(PdfItem(Head(ms), url), PdfLoop(Tail(ms), url))

\* the element texts: the try block, or its catch when the DOM calls throw.
\* An exception in the second call of the callback leaves what the first call
\* pushed in textContent, and the catch block pushes after it.
ExtractText(doc, html, env) ==
  IF html = "" THEN <<>>
  ELSE IF env.dom = "ok" THEN CollectText(ContentElements(doc), {})
  ELSE IF env.dom = "breaks"
    THEN (IF Len(ContentElements(doc)) < 2 THEN CollectText(ContentElements(doc), {})
          ELSE CollectText(<<Head(ContentElements(doc))>>, {}) \o FallbackText(html))
  ELSE FallbackText(html)

\* the return statement of both modes
ScrapedData(url, now, title, description, text, images, pdfs) ==
  [url |-> url,
   timestamp |-> now,
   title |-> OrElse(title, "Scraped Content"),
   description |-> OrElse(description, "Content extracted from website"),
   text |-> PushIf(title) \o PushIf(description) \o text,
   images |-> images,
   pdfs |-> pdfs]

\* a variant of the structured mode that drops the short fragments of
\* textContent, as the raw-HTML mode does with element texts
StructuredResultFiltered(ed, url, env) ==
  ScrapedData(url, env.now, ed.title, ed.description,
              SelectSeq(ed.textContent, LongEnough), ed.images, ed.pdfLinks)

\* the branch if (data.extractedData)
StructuredResult(ed, url, env) ==
  ScrapedData(url, env.now, ed.title, ed.description, ed.textContent,
              ed.images, ed.pdfLinks)

\* data.html || data.rawHtml || ''
ChosenDoc(data) == IF Serialize(data.html) # "" THEN data.html ELSE data.rawHtml

\* a variant of the return statement that leaves out the element texts equal
\* to the title or the description
RawReturnDeduped(data, url, env, text, images, pdfs) ==
  IF images.threw \/ pdfs.threw THEN Thrown("Invalid URL")
  ELSE Returned(ScrapedData(url, env.now, data.title, data.description,
                            SelectSeq(text, LAMBDA t : t \notin {data.title, data.description}),
                            images.list, pdfs.list))

\* the return statement of the raw-HTML mode, unless a loop threw
RawReturn(data, url, env, text, images, pdfs) ==
  IF images.threw \/ pdfs.threw THEN Thrown("Invalid URL")
  ELSE Returned(ScrapedData(url, env.now, data.title, data.description, text,
                            images.list, pdfs.list))

\* the raw-HTML mode on the markup html of the document doc ("" when there is
\* none: the three if (html) blocks are skipped)
RawFrom(data, url, env, doc, html) ==
  RawReturn(data, url, env, ExtractText(doc, html, env),
            ImageLoop(ImgTags(html, 1), url), PdfLoop(LinkMatches(html, 1), url))

RawHtmlResult(data, url, env) ==
  RawFrom(data, url, env, ChosenDoc(data), Serialize(ChosenDoc(data)))

\* a variant of the normalizer that takes the structured branch only when
\* extractedData has a field with content
parseFirecrawlDataNonEmpty(data, url, env) ==
  IF data.kind # "object"
    THEN Thrown("Cannot read properties of undefined (reading 'extractedData')")
  ELSE IF data.hasExtracted /\ data.extractedData.title # ""
    THEN Returned(StructuredResult(data.extractedData, url, env))
  ELSE RawHtmlResult(data, url, env)

\* parseFirecrawlData(data, url); data.kind = "undefined" when result.data is
\* missing, and reading data.extractedData throws
parseFirecrawlData(data, url, env) ==
  IF data.kind # "object"
    THEN Thrown("Cannot read properties of undefined (reading 'extractedData')")
  ELSE IF data.hasExtracted THEN Returned(StructuredResult(data.extractedData, url, env))
  ELSE RawHtmlResult(data, url, env)

(***************************************************************************)
(* FirecrawlService.getApiKey and FirecrawlService.scrapeWebsite           *)
(***************************************************************************)
\* JavaScript's null, as the value of a string-or-null expression.
Null == "<null>"

\* a variant of the key test that compares with null only (apiKey === null)
NullOnly(v) == v = Null

\* !v for a string-or-null value
Falsy(v) == v \in {Null, ""}

\* a variant of the credential lookup that prefers the stored key
getApiKeyStoredFirst(env, store) ==
  IF store.blocked
    THEN Thrown("Failed to read the 'localStorage' property from 'Window': Access is denied for this document.")
  ELSE IF store.item \notin {Null, ""} THEN Returned(store.item)
  ELSE Returned(env)

\* getApiKey(): envKey is import.meta.env.VITE_FIRECRAWL_API_KEY ("" when not
\* set); store is the local storage, [blocked, item]: reading localStorage
\* throws a SecurityError when the browser denies the page its storage, and
\* getItem gives the item or null otherwise.
getApiKey(env, store) ==
  IF env # "" THEN Returned(env)
  ELSE IF store.blocked
    THEN Thrown("Failed to read the 'localStorage' property from 'Window': Access is denied for this document.")
  ELSE Returned(store.item)

Endpoint == "https://api.firecrawl.dev/v0/scrape"

\* a variant of the request that gives a url without scheme the prefix https://
RequestWithScheme(key, url) ==
  [endpoint |-> Endpoint, method |-> "POST", authorization |-> "Bearer " \o key,
   url |-> IF SchemeEnd(url) > 0 THEN url ELSE "https://" \o url]

\* the request scrapeWebsite hands to fetch
Request(key, url) ==
  [endpoint |-> Endpoint, method |-> "POST",
   authorization |-> "Bearer " \o key, url |-> url]

MissingKeyMessage == "API key not found. Please enter your Firecrawl API key."

Success(data) == [success |-> TRUE, data |-> data]

\* a variant of the failure object that carries a placeholder data object with
\* empty collections
FailWithPlaceholder(msg) ==
  [success |-> FALSE, error |-> msg,
   data |-> [url |-> "", timestamp |-> "", title |-> "", description |-> "",
             text |-> <<>>, images |-> <<>>, pdfs |-> <<>>]]

\* the object the catch block (and the missing-key branch) returns
Fail(msg) == [success |-> FALSE, error |-> msg]

\* the promise of an invocation
Pending == [state |-> "pending"]

Fulfilled(v) == [state |-> "fulfilled", value |-> v]

Rejected(msg) == [state |-> "rejected", reason |-> msg]

\* a variant of the error of a response that is not ok that never reads the body
NotOkStatusOnly(resp) == "HTTP " \o NatToStr(resp.status) \o ": " \o resp.statusText

\* the error thrown for a response that is not ok: errorData is the body, or
\* {} when the body is no JSON; reading .error of a null body throws.
NotOkMessage(resp) ==
  IF resp.body.json = "null" THEN "Cannot read properties of null (reading 'error')"
  ELSE IF resp.body.json = "object" /\ resp.body.error # "" THEN resp.body.error
  ELSE "HTTP " \o NatToStr(resp.status) \o ": " \o resp.statusText

\* a variant of the end of the try block that returns a success without
\* content when parseFirecrawlData threw
ParsedEmptyOnThrow(scraped) ==
  IF scraped.threw
    THEN [result |-> Success(ScrapedData("", "", "", "", <<>>, <<>>, <<>>)), normCalls |-> 1]
  ELSE [result |-> Success(scraped.value), normCalls |-> 1]

\* return { success: true, data: scrapedData }, or the catch block when
\* parseFirecrawlData threw
Parsed(scraped) ==
  IF scraped.threw THEN [result |-> Fail(scraped.error), normCalls |-> 1]
  ELSE [result |-> Success(scraped.value), normCalls |-> 1]

\* a variant of scrapeWebsite from the response on that does not test
\* result.success
AfterResponseUnchecked(url, resp, env) ==
  IF ~resp.ok THEN [result |-> Fail(NotOkMessage(resp)), normCalls |-> 0]
  ELSE IF resp.body.json = "invalid"
    THEN [result |-> Fail("Unexpected token < in JSON at position 0"), normCalls |-> 0]
  ELSE IF resp.body.json = "null"
    THEN [result |-> Fail("Cannot read properties of null (reading 'success')"),
          normCalls |-> 0]
  ELSE Parsed(parseFirecrawlData(resp.body.data, url, env))

\* scrapeWebsite from the response on: [result, normCalls], the object the
\* promise is fulfilled with and the number of calls of parseFirecrawlData.
AfterResponse(url, resp, env) ==
  IF ~resp.ok THEN [result |-> Fail(NotOkMessage(resp)), normCalls |-> 0]
  ELSE IF resp.body.json = "invalid"
    THEN [result |-> Fail("Unexpected token < in JSON at position 0"), normCalls |-> 0]
  ELSE IF resp.body.json = "null"
    THEN [result |-> Fail("Cannot read properties of null (reading 'success')"),
          normCalls |-> 0]
  ELSE IF ~resp.body.success
    THEN [result |-> Fail(OrElse(resp.body.error, "Scraping failed")), normCalls |-> 0]
  ELSE Parsed(parseFirecrawlData(resp.body.data, url, env))

(***************************************************************************)
(* The inputs: origin URLs, documents, payloads, responses                 *)
(***************************************************************************)
\* the greatest number of nodes in the body of a generated document
MaxNodes == 2

\* the greatest number of calls of parseFirecrawlData in a row
MaxCalls == 3

SiteUrl == "https://site.test/page"

DocsUrl == "https://example.com/docs/"

\* a url argument without a scheme
BareUrl == "example.com"

Img(src) == Elem("img", <<Attr("src", src, "\"")>>, <<>>)

PdfLink(href, text) ==
  Elem("a", <<Attr("href", href, "\"")>>, IF text = "" THEN <<>> ELSE <<TextNode(text)>>)

P(text) == Elem("p", <<>>, <<TextNode(text)>>)

\* the nodes documents are made of.  The image sources: relative and absolute
\* ones that resolve against an origin with a scheme; an http URL without a
\* host and a scheme-relative reference without a host, which are no URL and
\* resolve to none; and a relative file name that begins with the letters
\* http.  The hrefs of the PDF anchors: resolvable ones, one with a space in
\* its host, one without a host, and one whose file name is no valid
\* percent-encoding.
NodePool ==
  {P("Hello world!"), Elem("h1", <<>>, <<TextNode("Welcome")>>)}
    \cup {Img(src) :
            src \in {"/logo.png", "../img/a.png", "https://cdn.example.com/x.png",
                     "ht!tp://bad", "http://", "//", "http.png"}}
    \cup {Elem("img", <<Attr("alt", "A chart", "'"),
                        Attr("src", "chart.png?v=1#top", "\"")>>, <<>>)}
    \cup {PdfLink(h, "") :
            h \in {"/doc.pdf", "files/Erie-Settle-8-18-11.pdf",
                   "https://cdn.example.com/annual-report-2023.PDF",
                   "https://exa mple.com/x.pdf", "//:8080/x.pdf", "/a%ZZ.pdf"}}
    \cup {PdfLink("/doc.pdf", "Report")}

\* the documents of at most n nodes from the pool
RECURSIVE DocsUpTo(_)
DocsUpTo(n) ==
  IF n = 0 THEN {<<>>}
  ELSE DocsUpTo(n - 1)
         \cup {Append(d, x) : d \in {e \in DocsUpTo(n - 1) : Len(e) = n - 1}, x \in NodePool}

NoExtracted ==
  [title |-> "", description |-> "", textContent |-> <<>>, images |-> <<>>,
   pdfLinks |-> <<>>]

\* a payload without data: result.data is undefined
NoData ==
  [kind |-> "undefined", hasExtracted |-> FALSE, extractedData |-> NoExtracted,
   html |-> <<>>, rawHtml |-> <<>>, title |-> "", description |-> ""]

RawPayload(html, rawHtml, title, description) ==
  [kind |-> "object", hasExtracted |-> FALSE, extractedData |-> NoExtracted,
   html |-> html, rawHtml |-> rawHtml, title |-> title, description |-> description]

StructuredPayload(ed, html) ==
  [kind |-> "object", hasExtracted |-> TRUE, extractedData |-> ed,
   html |-> html, rawHtml |-> <<>>, title |-> "", description |-> ""]

\* structured extractions as the service's LLM extraction delivers them: the
\* src and href values are those of the page's markup
Extractions ==
  {NoExtracted,
   [title |-> "Site", description |-> "", textContent |-> <<"A", "A", "B">>,
    images |-> <<[src |-> "/logo.png", alt |-> "Logo"]>>,
    pdfLinks |-> <<[href |-> "/doc.pdf", title |-> "Report"]>>],
   [title |-> "", description |-> "About the site", textContent |-> <<>>,
    images |-> <<[src |-> "https://cdn.example.com/x.png", alt |-> ""]>>,
    pdfLinks |-> <<[href |-> "https://cdn.example.com/annual-report-2023.PDF",
                    title |-> "Annual Report"]>>]}

\* the document of the end-to-end scenario
ScenarioDoc ==
  <<Elem("h1", <<>>, <<TextNode("Welcome")>>), P("Short"), Img("/logo.png"),
    PdfLink("/doc.pdf", "Report")>>

\* a document with one image that resolves to no URL among items that do
MixedDoc ==
  <<P("Hello world!"), Img("//"), Img("/logo.png"), PdfLink("/doc.pdf", "")>>

\* a document of texts: one shorter than ten characters, one of ten, one
\* longer, and the longer one again in a list item and the paragraph in it
TextsDoc ==
  <<P("Hi"), P("Ten chars!"), P("Hello world!"),
    Elem("li", <<>>, <<P(" Hello world! ")>>)>>

\* documents of two blocks in wrappers that are, or are not, main-content
\* containers or non-content elements; the second block holds a paragraph
\* with a script in it and a nested block
LayoutDocs ==
  {<<Elem(w1.tag, w1.attrs, <<P("First block text")>>),
     Elem(w2.tag, w2.attrs,
          <<Elem("p", <<>>, <<TextNode("Second block text"),
                              Elem("script", <<>>, <<TextNode("var hidden = 1;")>>)>>),
            Elem(w3, <<>>, <<P("Nested block text")>>)>>)>> :
     w1, w2 \in {[tag |-> "div", attrs |-> <<>>], [tag |-> "main", attrs |-> <<>>],
                 [tag |-> "nav", attrs |-> <<>>],
                 [tag |-> "div", attrs |-> <<Attr("class", "wide post", "\"")>>],
                 [tag |-> "section", attrs |-> <<Attr("role", "main", "\"")>>]},
     w3 \in {"div", "footer", "article"}}

\* the payloads the normalizer is run on
NormPayloads ==
  {RawPayload(d, <<>>, "", "") : d \in DocsUpTo(MaxNodes)}
    \cup {RawPayload(<<>>, ScenarioDoc, "Title", "A description"),
          RawPayload(<<>>, ScenarioDoc, "", ""),
          RawPayload(MixedDoc, ScenarioDoc, "", ""),
          RawPayload(TextsDoc, <<>>, "", ""),
          RawPayload(TextsDoc, <<>>, "Hello world!", ""),
          RawPayload(<<Img("/logo.png#top"), Img("a.png?v=2")>>, <<>>, "", ""),
          [StructuredPayload(NoExtracted, ScenarioDoc)
             EXCEPT !.rawHtml = MixedDoc, !.title = "Top", !.description = "Top description"]}
    \cup {RawPayload(d, <<>>, "", "") : d \in LayoutDocs}
    \cup {StructuredPayload(ed, ScenarioDoc) : ed \in Extractions}

Env(now, dom) == [now |-> now, dom |-> dom]

\* the runs of the normalizer: payload, origin and platform
NormInputs ==
  {[data |-> d, url |-> u, env |-> Env("2025-01-01T00:00:00.000Z", dom)] :
     d \in NormPayloads, u \in {SiteUrl, DocsUrl, BareUrl},
     dom \in {"ok", "throws", "breaks"}}

\* the responses of the service
Body(json, success, error, data) ==
  [json |-> json, success |-> success, error |-> error, data |-> data]

HttpResponse(status, statusText, body) ==
  [kind |-> "http", ok |-> status \in 200..299, status |-> status,
   statusText |-> statusText, message |-> "", body |-> body]

\* fetch rejects (no connection, CORS): a TypeError with this message
NetworkError ==
  [kind |-> "reject", ok |-> FALSE, status |-> 0, statusText |-> "",
   message |-> "Failed to fetch", body |-> Body("invalid", FALSE, "", NoData)]

\* the payloads of the successful responses
ScrapePayloads ==
  {NoData,
   RawPayload(ScenarioDoc, <<>>, "", ""),
   RawPayload(<<>>, MixedDoc, "Title", ""),
   RawPayload(<<>>, <<>>, "", ""),
   StructuredPayload(CHOOSE ed \in Extractions : ed.title = "Site", ScenarioDoc)}

Responses ==
  {NetworkError,
   HttpResponse(500, "Internal Server Error", Body("invalid", FALSE, "", NoData))}
    \cup {HttpResponse(401, "Unauthorized", b) :
            b \in {Body("invalid", FALSE, "", NoData), Body("null", FALSE, "", NoData),
                   Body("object", FALSE, "Invalid token", NoData),
                   Body("object", FALSE, "", NoData)}}
    \cup {HttpResponse(200, "OK", b) :
            b \in {Body("invalid", FALSE, "", NoData), Body("null", FALSE, "", NoData),
                   Body("object", FALSE, "Rate limit exceeded", NoData),
                   Body("object", FALSE, "", NoData)}}
    \cup {HttpResponse(200, "OK", Body("object", TRUE, "", d)) : d \in ScrapePayloads}

EnvKeys == {"", "fc-env-key"}

Storages ==
  {[blocked |-> FALSE, item |-> Null], [blocked |-> FALSE, item |-> ""],
   [blocked |-> FALSE, item |-> "fc-local-key"], [blocked |-> TRUE, item |-> Null]}

ScrapeUrls == {SiteUrl, BareUrl}

\* the platform at the time of a scrape: two readings of the clock
ScrapeEnvs ==
  {Env(t, "ok") : t \in {"2025-01-01T00:00:00.000Z", "2025-01-01T00:00:01.000Z"}}

\* the invocations of scrapeWebsite that may overlap
Procs == {"p1", "p2"}

(***************************************************************************)
(* The state                                                               *)
(***************************************************************************)
VARIABLES
  envKey,     \* import.meta.env.VITE_FIRECRAWL_API_KEY, "" when not set
  storage,    \* the local storage: [blocked, item]
  pc,         \* per invocation: "idle", "fetching", "reading", "done"
  arg,        \* the url argument
  apiKey,     \* the local apiKey
  sent,       \* the requests handed to fetch by the invocation, in order
  response,   \* the response fetch resolved with
  normCalls,  \* the calls of parseFirecrawlData made by the invocation
  outcome,    \* the promise scrapeWebsite returned
  normIn,     \* the normalizer run on its own: its arguments
  normOut,    \* and its outcome
  log,        \* the normalizer called repeatedly: the calls, in order
  fmt,        \* formatFilenameAsTitle run on its own: [filename, done, title]
  page,       \* the state of the Index page: [scrapedData, isLoading]
  form,       \* the scrapes of the form: [outstanding, delivered, inTurn]
  save        \* the invocation of handleSaveAs of the display

vars ==
  <<envKey, storage, pc, arg, apiKey, sent, response, normCalls, outcome,
    normIn, normOut, log, fmt, page, form, save>>

scrapeVars == <<envKey, storage, pc, arg, apiKey, sent, response, normCalls, outcome>>

\* the variables of the functions run on their own
normVars == <<normIn, normOut, log, fmt>>

\* the variables of the page
uiVars == <<page, form, save>>

\* useState<ScrapedData | null>(null) and useState(false); scrapedData is <<>>
\* for null and <<data>> otherwise
NoPage == [scrapedData |-> <<>>, isLoading |-> FALSE]

\* no scrape has been started
NoScrape == [outstanding |-> 0, delivered |-> <<>>, inTurn |-> TRUE]

\* handleSaveAs is not running
NoSave ==
  [pc |-> "idle", data |-> <<>>, supported |-> TRUE, error |-> "", failedAt |-> "",
   saved |-> 0, downloads |-> 0, toasts |-> <<>>]

\* the value of response before fetch has resolved
NoResponse == [NetworkError EXCEPT !.kind = "none", !.message = ""]

NotRun == [done |-> FALSE]

Init ==
  /\ envKey \in EnvKeys
  /\ storage \in Storages
  /\ pc = [p \in Procs |-> "idle"]
  /\ arg = [p \in Procs |-> ""]
  /\ apiKey = [p \in Procs |-> Null]
  /\ sent = [p \in Procs |-> <<>>]
  /\ response = [p \in Procs |-> NoResponse]
  /\ normCalls = [p \in Procs |-> 0]
  /\ outcome = [p \in Procs |-> Pending]
  /\ normIn = [data |-> NoData, url |-> "", env |-> Env("", "ok")]
  /\ normOut = NotRun
  /\ log = <<>>
  /\ fmt = [filename |-> "", done |-> FALSE, title |-> ""]
  /\ page = NoPage
  /\ form = NoScrape
  /\ save = NoSave

(***************************************************************************)
(* scrapeWebsite(url), step by step: an async function runs to its first   *)
(* await, and from each await to the next, without interruption.           *)
(***************************************************************************)
\* the call: getApiKey, the test of the key, and the call of fetch
Call(p, url) ==
  /\ pc[p] = "idle"
  /\ arg' = [arg EXCEPT ![p] = url]
  /\ LET key == getApiKey(envKey, storage)
     IN  IF key.threw
           THEN /\ outcome' = [outcome EXCEPT ![p] = Rejected(key.error)]
                /\ pc' = [pc EXCEPT ![p] = "done"]
                /\ UNCHANGED <<apiKey, sent>>
         ELSE IF Falsy(key.value)
           THEN /\ outcome' = [outcome EXCEPT ![p] = Fulfilled(Fail(MissingKeyMessage))]
                /\ pc' = [pc EXCEPT ![p] = "done"]
                /\ apiKey' = [apiKey EXCEPT ![p] = key.value]
                /\ UNCHANGED sent
         ELSE /\ apiKey' = [apiKey EXCEPT ![p] = key.value]
              /\ sent' = [sent EXCEPT ![p] = Append(@, Request(key.value, url))]
              /\ pc' = [pc EXCEPT ![p] = "fetching"]
              /\ UNCHANGED outcome
  /\ UNCHANGED <<envKey, storage, response, normCalls, normVars, uiVars>>

\* a variant of the step after fetch that calls fetch once more when the first
\* call was rejected
FetchRetries(p, resp) ==
  /\ pc[p] = "fetching"
  /\ IF resp.kind = "reject" /\ Len(sent[p]) < 2
       THEN /\ sent' = [sent EXCEPT ![p] = Append(@, Head(@))]
            /\ UNCHANGED <<pc, outcome, response>>
     ELSE IF resp.kind = "reject"
       THEN /\ outcome' = [outcome EXCEPT ![p] = Fulfilled(Fail(resp.message))]
            /\ pc' = [pc EXCEPT ![p] = "done"]
            /\ UNCHANGED <<response, sent>>
     ELSE /\ response' = [response EXCEPT ![p] = resp]
          /\ pc' = [pc EXCEPT ![p] = "reading"]
          /\ UNCHANGED <<outcome, sent>>
  /\ UNCHANGED <<envKey, storage, arg, apiKey, normCalls, normVars, uiVars>>

\* await fetch(...) settles: rejected (the catch block returns), or resolved
\* with a response, whose body is then awaited
FetchSettles(p, resp) ==
  /\ pc[p] = "fetching"
  /\ IF resp.kind = "reject"
       THEN /\ outcome' = [outcome EXCEPT ![p] = Fulfilled(Fail(resp.message))]
            /\ pc' = [pc EXCEPT ![p] = "done"]
            /\ UNCHANGED response
     ELSE /\ response' = [response EXCEPT ![p] = resp]
          /\ pc' = [pc EXCEPT ![p] = "reading"]
          /\ UNCHANGED outcome
  /\ UNCHANGED <<envKey, storage, arg, apiKey, sent, normCalls, normVars, uiVars>>

\* a variant of the step after response.json() with a cache of responses by
\* URL: the response of another invocation for the same URL is used when
\* there is one
BodySettlesCached(p, env) ==
  /\ pc[p] = "reading"
  /\ LET others == {q \in Procs \ {p} : arg[q] = arg[p] /\ response[q].kind = "http"}
         r == AfterResponse(arg[p],
                            IF others = {} THEN response[p]
                            ELSE response[CHOOSE q \in others : TRUE],
                            env)
     IN  /\ outcome' = [outcome EXCEPT ![p] = Fulfilled(r.result)]
         /\ normCalls' = [normCalls EXCEPT ![p] = r.normCalls]
  /\ pc' = [pc EXCEPT ![p] = "done"]
  /\ UNCHANGED <<envKey, storage, arg, apiKey, sent, response, normVars, uiVars>>

\* await response.json() settles: the rest of the function
BodySettles(p, env) ==
  /\ pc[p] = "reading"
  /\ LET r == AfterResponse(arg[p], response[p], env)
     IN  /\ outcome' = [outcome EXCEPT ![p] = Fulfilled(r.result)]
         /\ normCalls' = [normCalls EXCEPT ![p] = r.normCalls]
  /\ pc' = [pc EXCEPT ![p] = "done"]
  /\ UNCHANGED <<envKey, storage, arg, apiKey, sent, response, normVars, uiVars>>

\* the caller has the settled promise; the invocation's frame is gone
Return(p) ==
  /\ pc[p] = "done"
  /\ pc' = [pc EXCEPT ![p] = "idle"]
  /\ arg' = [arg EXCEPT ![p] = ""]
  /\ apiKey' = [apiKey EXCEPT ![p] = Null]
  /\ sent' = [sent EXCEPT ![p] = <<>>]
  /\ response' = [response EXCEPT ![p] = NoResponse]
  /\ normCalls' = [normCalls EXCEPT ![p] = 0]
  /\ outcome' = [outcome EXCEPT ![p] = Pending]
  /\ UNCHANGED <<envKey, storage, normVars, uiVars>>

Next ==
  \/ \E p \in Procs, url \in ScrapeUrls : Call(p, url)
  \/ \E p \in Procs, resp \in Responses : FetchSettles(p, resp)
  \/ \E p \in Procs, env \in ScrapeEnvs : BodySettles(p, env)
  \/ \E p \in Procs : Return(p)

Spec == Init /\ [][Next]_vars

(***************************************************************************)
(* The normalizer run on its own, on every payload, origin and platform    *)
(***************************************************************************)
NormInit ==
  /\ envKey = ""
  /\ storage = [blocked |-> FALSE, item |-> Null]
  /\ pc = [p \in Procs |-> "idle"]
  /\ arg = [p \in Procs |-> ""]
  /\ apiKey = [p \in Procs |-> Null]
  /\ sent = [p \in Procs |-> <<>>]
  /\ response = [p \in Procs |-> NoResponse]
  /\ normCalls = [p \in Procs |-> 0]
  /\ outcome = [p \in Procs |-> Pending]
  /\ normIn \in NormInputs
  /\ normOut = NotRun
  /\ log = <<>>
  /\ fmt = [filename |-> "", done |-> FALSE, title |-> ""]
  /\ page = NoPage
  /\ form = NoScrape
  /\ save = NoSave

\* the outcome out of parseFirecrawlData, and the result scrapeWebsite makes of
\* it (the return statement, or the catch block)
NormOutcome(out) == [done |-> TRUE, out |-> out, result |-> Parsed(out).result]

\* the call this.parseFirecrawlData(result.data, url) of scrapeWebsite
Normalize ==
  /\ ~normOut.done
  /\ normOut' = NormOutcome(parseFirecrawlData(normIn.data, normIn.url, normIn.env))
  /\ UNCHANGED <<normIn, log, fmt, scrapeVars, uiVars>>

SpecNorm == NormInit /\ [][Normalize]_vars

(***************************************************************************)
(* The normalizer called repeatedly: up to MaxCalls calls in sequence, on  *)
(* any payloads and origins, at any time, on a platform with or without a  *)
(* working DOM                                                             *)
(***************************************************************************)
\* no scrape is in progress and no function has been called
AloneInit ==
  /\ Init
  /\ envKey = ""
  /\ storage = [blocked |-> FALSE, item |-> Null]

\* a variant of the call whose set seenText outlives the call: the texts of
\* the earlier calls are not pushed again
RepeatSharedSeen(data, url, env) ==
  /\ Len(log) < MaxCalls
  /\ LET out == parseFirecrawlData(data, url, env)
         Fresh(t) == \A k \in DOMAIN log :
                       log[k].out.threw
                         \/ \A n \in DOMAIN log[k].out.value.text :
                              log[k].out.value.text[n] # t
     IN  log' = Append(log, [data |-> data, url |-> url, env |-> env,
                             out |-> IF out.threw THEN out
                                     ELSE [out EXCEPT !.value.text = SelectSeq(@, Fresh)]])
  /\ UNCHANGED <<normIn, normOut, fmt, scrapeVars, uiVars>>

\* a call of parseFirecrawlData(data, url) on the platform env, after the
\* calls of log
Repeat(data, url, env) ==
  /\ Len(log) < MaxCalls
  /\ log' = Append(log, [data |-> data, url |-> url, env |-> env,
                         out |-> parseFirecrawlData(data, url, env)])
  /\ UNCHANGED <<normIn, normOut, fmt, scrapeVars, uiVars>>

SpecRepeat ==
  /\ AloneInit
  /\ [][\E data \in {NoData, RawPayload(TextsDoc, <<>>, "", ""),
                      StructuredPayload(CHOOSE ed \in Extractions : ed.title = "Site",
                                        ScenarioDoc)},
            url \in {SiteUrl, DocsUrl},
            env \in ScrapeEnvs \cup {Env("2025-01-01T00:00:00.000Z", "throws")} :
          Repeat(data, url, env)]_vars

(***************************************************************************)
(* formatFilenameAsTitle run on its own, on file names made of a name, a   *)
(* tail of number groups and an extension                                  *)
(***************************************************************************)
\* the call formatFilenameAsTitle(filename)
FormatTitle(filename) ==
  /\ ~fmt.done
  /\ fmt' = [filename |-> filename, done |-> TRUE,
             title |-> formatFilenameAsTitle(filename)]
  /\ UNCHANGED <<normIn, normOut, log, scrapeVars, uiVars>>

SpecTitle ==
  /\ AloneInit
  /\ [][\E name \in {"annual-report", "Erie-Settle", "USER_MANUAL", "Q3.results", "x", "",
                      "iOS guide", "README_v2"},
            tail \in {"", "-2023", "-8-18", "-8-18-11", "_2021_05_23", "-1-2-3-4",
                      "--8--18--11", " 8 18 11 "},
            ext \in {".pdf", ".PDF", "", ".pdf.pdf"} :
          FormatTitle(name \o tail \o ext)]_vars

(***************************************************************************)
(* The Index page and the display.  The page hands handleScrapeStart and   *)
(* handleScrapeComplete to the form, which calls them as onScrapeStart and *)
(* onScrapeComplete; the display saves the result with handleSaveAs, an    *)
(* async function taken from await to await.                               *)
(***************************************************************************)
\* the greatest number of scrapes of the form outstanding at once
MaxOutstanding == 2

\* a variant of handleScrapeStart that leaves the previous result in place
handleScrapeStartKeepsResult(pg) == [pg EXCEPT !.isLoading = TRUE]

\* handleScrapeStart: setIsLoading(true); setScrapedData(null).  The updates
\* of one handler are applied together, in one render.
handleScrapeStart(pg) == [pg EXCEPT !.isLoading = TRUE, !.scrapedData = <<>>]

\* handleScrapeComplete(data): setScrapedData(data); setIsLoading(false)
handleScrapeComplete(pg, data) ==
  [pg EXCEPT !.scrapedData = <<data>>, !.isLoading = FALSE]

\* the form starts a scrape and calls onScrapeStart; inTurn records that no
\* scrape has been started while isLoading was true
OnScrapeStart ==
  /\ form.outstanding < MaxOutstanding
  /\ page' = handleScrapeStart(page)
  /\ form' = [form EXCEPT !.outstanding = @ + 1, !.inTurn = @ /\ ~page.isLoading]
  /\ UNCHANGED <<save, scrapeVars, normVars>>

\* a scrape of the form has succeeded and the form calls onScrapeComplete
OnScrapeComplete(data) ==
  /\ form.outstanding > 0
  /\ page' = handleScrapeComplete(page, data)
  /\ form' = [form EXCEPT !.outstanding = @ - 1, !.delivered = <<data>>]
  /\ UNCHANGED <<save, scrapeVars, normVars>>

\* handleBrowserDownload: the click on the anchor of the object URL, and the
\* toast
handleBrowserDownload(s) ==
  [s EXCEPT !.downloads = @ + 1, !.toasts = Append(@, "Downloaded!")]

\* a variant of the catch block that falls back whatever the error
SaveCatchAlways(s, name) ==
  handleBrowserDownload([s EXCEPT !.pc = "done", !.error = name, !.failedAt = s.pc,
                                  !.toasts = Append(@, "Save failed")])

\* the catch block of handleSaveAs, for an error called name
SaveCatch(s, name) ==
  IF name # "AbortError"
    THEN handleBrowserDownload([s EXCEPT !.pc = "done", !.error = name,
                                         !.failedAt = s.pc,
                                         !.toasts = Append(@, "Save failed")])
  ELSE [s EXCEPT !.pc = "done", !.error = name, !.failedAt = s.pc]

\* the Save As button of the display, there while a result is shown:
\* handleSaveAs up to the await of showSaveFilePicker, or to its return when
\* the browser has no such function
handleSaveAs(supported) ==
  /\ save.pc \in {"idle", "done"}
  /\ page.scrapedData # <<>>
  /\ save' = IF ~supported
              THEN handleBrowserDownload([NoSave EXCEPT !.pc = "done",
                                                        !.data = page.scrapedData,
                                                        !.supported = FALSE,
                                                        !.toasts = <<"Not supported">>])
            ELSE [NoSave EXCEPT !.pc = "picking", !.data = page.scrapedData]
  /\ UNCHANGED <<page, form, scrapeVars, normVars>>

\* the promise handleSaveAs awaits settles: that of showSaveFilePicker, of
\* createWritable, of write or of close; result is "ok" or the name of the
\* error it is rejected with.  The file is there when close has resolved.
SaveSettles(result) ==
  /\ save.pc \in {"picking", "creating", "writing", "closing"}
  /\ save' = IF result # "ok" THEN SaveCatch(save, result)
            ELSE IF save.pc = "picking" THEN [save EXCEPT !.pc = "creating"]
            ELSE IF save.pc = "creating" THEN [save EXCEPT !.pc = "writing"]
            ELSE IF save.pc = "writing" THEN [save EXCEPT !.pc = "closing"]
            ELSE [save EXCEPT !.pc = "done", !.saved = 1,
                              !.toasts = Append(@, "Saved successfully!")]
  /\ UNCHANGED <<page, form, scrapeVars, normVars>>

SpecPage ==
  /\ AloneInit
  /\ [][\/ OnScrapeStart
        \/ \E url \in ScrapeUrls, env \in ScrapeEnvs :
             OnScrapeComplete(
               parseFirecrawlData(RawPayload(ScenarioDoc, <<>>, "", ""), url, env).value)
        \/ \E supported \in BOOLEAN : handleSaveAs(supported)
        \/ \E result \in {"ok", "AbortError", "NotAllowedError"} : SaveSettles(result)]_vars

(***************************************************************************)
(* Properties of scrapeWebsite (under Spec)                                *)
(***************************************************************************)
\* sub occurs in s
Contains(s, sub) == \E i \in 1..(Len(s) + 1) : MatchAt(s, sub, i)

\* s starts with a scheme and its ":"
HasScheme(s) == SchemeEnd(s) > 0

\* getApiKey returns null or an empty string
NoKeyResolvable == envKey = "" /\ ~storage.blocked /\ storage.item \in {Null, ""}

\* getApiKey returns a key
KeyPresent == envKey # "" \/ (~storage.blocked /\ storage.item \notin {Null, ""})

\* the invocation p has returned a result object
HasReturned(p) == pc[p] = "done" /\ outcome[p].state = "fulfilled"

\* the invocation p has returned after an HTTP response
Answered(p) == pc[p] = "done" /\ response[p].kind = "http"

\* C1: when getApiKey returns null or an empty string, scrapeWebsite returns a
\* failure result (success = false with an error message) and hands no
\* request to fetch, at any time of the invocation.
C1_NoKeyNoRequest ==
  \A p \in Procs :
    NoKeyResolvable =>
      /\ sent[p] = <<>>
      /\ pc[p] \in {"idle", "done"}
      /\ pc[p] = "done" =>
           /\ outcome[p].state = "fulfilled"
           /\ outcome[p].value.success = FALSE
           /\ Len(outcome[p].value.error) > 0

\* an invocation has returned with an empty string stored as the key
C1_Witness ==
  \E p \in Procs :
    /\ pc[p] = "done"
    /\ envKey = "" /\ ~storage.blocked /\ storage.item = ""
    /\ outcome[p] = Fulfilled(Fail(MissingKeyMessage))
    /\ sent[p] = <<>>

\* C2: with an API key present, an invocation of scrapeWebsite has handed
\* exactly one request to fetch from its call on, whatever its outcome: there
\* is never a second one.
C2_ExactlyOneRequest ==
  \A p \in Procs :
    KeyPresent =>
      /\ Len(sent[p]) = (IF pc[p] = "idle" THEN 0 ELSE 1)
      /\ pc[p] # "idle" => sent[p][1].endpoint = Endpoint

\* an invocation whose fetch was rejected has returned, after one request
C2_Witness ==
  \E p \in Procs :
    /\ KeyPresent
    /\ pc[p] = "done"
    /\ outcome[p] = Fulfilled(Fail("Failed to fetch"))
    /\ Len(sent[p]) = 1

\* C3: scrapeWebsite lets no exception escape: whatever the credential
\* lookup, the fetch, the JSON decoding and the normalization do, its promise
\* is fulfilled with success = true and data, or with success = false and a
\* non-empty error message.
C3_NoExceptionEscapes ==
  \A p \in Procs :
    pc[p] = "done" =>
      /\ outcome[p].state = "fulfilled"
      /\ \/ outcome[p].value.success /\ "data" \in DOMAIN outcome[p].value
         \/ ~outcome[p].value.success /\ Len(outcome[p].value.error) > 0

\* C4 as stated: after a non-success HTTP status the failure's message carries
\* the HTTP status and the error message of the response body, if it has one.
C4_StatusAndServiceMessage ==
  \A p \in Procs :
    (Answered(p) /\ ~response[p].ok) =>
      /\ outcome[p].state = "fulfilled"
      /\ ~outcome[p].value.success
      /\ Contains(outcome[p].value.error, NatToStr(response[p].status))
      /\ (response[p].body.json = "object" /\ response[p].body.error # "")
           => Contains(outcome[p].value.error, response[p].body.error)

\* C4 as amended: after a non-success HTTP status scrapeWebsite returns a
\* failure whose message is the error message of the response body when the
\* body is a JSON object with a non-empty error (the status is then no part of
\* it), the message of the TypeError when the body is the JSON value null, and
\* "HTTP <status>: <statusText>" otherwise.
C4_ServiceMessageOrStatus ==
  \A p \in Procs :
    (Answered(p) /\ ~response[p].ok) =>
      outcome[p] =
        Fulfilled(
          [success |-> FALSE,
           error |->
             IF response[p].body.json = "object" /\ response[p].body.error # ""
               THEN response[p].body.error
             ELSE IF response[p].body.json = "null"
               THEN "Cannot read properties of null (reading 'error')"
             ELSE "HTTP " \o NatToStr(response[p].status) \o ": "
                    \o response[p].statusText])

\* an invocation has returned the service's message for a 401, without status
C4_Witness ==
  \E p \in Procs :
    /\ Answered(p)
    /\ response[p].status = 401
    /\ response[p].body.error = "Invalid token"
    /\ outcome[p] = Fulfilled(Fail("Invalid token"))

\* C5: after a success HTTP status with a body whose success flag is false,
\* scrapeWebsite returns a failure that carries the service's error message
\* (a generic message when the service gives none), and parseFirecrawlData has
\* not been called.
C5_ServiceFailureNotNormalized ==
  \A p \in Procs :
    (Answered(p) /\ response[p].ok /\ response[p].body.json = "object"
       /\ ~response[p].body.success) =>
      /\ outcome[p].state = "fulfilled"
      /\ ~outcome[p].value.success
      /\ Len(outcome[p].value.error) > 0
      /\ response[p].body.error # "" => outcome[p].value.error = response[p].body.error
      /\ normCalls[p] = 0

\* an invocation has returned the service's message of a 200 response
C5_Witness ==
  \E p \in Procs :
    /\ Answered(p)
    /\ response[p].status = 200
    /\ ~response[p].body.success
    /\ outcome[p] = Fulfilled(Fail("Rate limit exceeded"))
    /\ normCalls[p] = 0

\* C6: a result with success = false has no data, and a result with
\* success = true has a data object with url, timestamp, title, description,
\* text, images and pdfs.
C6_DataIffSuccess ==
  \A p \in Procs :
    outcome[p].state = "fulfilled" =>
      IF outcome[p].value.success
        THEN /\ DOMAIN outcome[p].value = {"success", "data"}
             /\ DOMAIN outcome[p].value.data =
                  {"url", "timestamp", "title", "description", "text", "images", "pdfs"}
      ELSE DOMAIN outcome[p].value = {"success", "error"}

\* one invocation has returned a failure after calling parseFirecrawlData, and
\* another a success
C6_Witness ==
  \E p, q \in Procs :
    /\ HasReturned(p) /\ ~outcome[p].value.success /\ normCalls[p] = 1
    /\ HasReturned(q) /\ outcome[q].value.success

\* C7 as stated: the URL sent to the service and the url recorded in the
\* result carry a scheme, also when the url passed lacks one.
C7_UrlCarriesScheme ==
  \A p \in Procs :
    /\ sent[p] # <<>> => HasScheme(sent[p][1].url)
    /\ (HasReturned(p) /\ outcome[p].value.success)
         => HasScheme(outcome[p].value.data.url)

\* C7 as amended: scrapeWebsite uses the url as it is passed and prepends
\* nothing: the URL sent to the service and the url recorded in the result
\* equal the argument.
C7_UrlAsPassed ==
  \A p \in Procs :
    /\ sent[p] # <<>> => sent[p][1].url = arg[p]
    /\ (HasReturned(p) /\ outcome[p].value.success)
         => outcome[p].value.data.url = arg[p]

\* a scrape of a url without scheme has succeeded
C7_Witness ==
  \E p \in Procs :
    /\ arg[p] = BareUrl
    /\ HasReturned(p)
    /\ outcome[p].value.success
    /\ outcome[p].value.data.url = BareUrl
    /\ sent[p][1].url = BareUrl

\* C19: invocations of scrapeWebsite that overlap, for the same URL or not,
\* are independent: each hands its own request to fetch, and the result of
\* each is what scrapeWebsite makes of its own response when it runs alone,
\* with its own call of parseFirecrawlData, whatever the other invocation
\* does and in whatever order their steps are taken.
C19_InvocationsIndependent ==
  \A p \in Procs :
    /\ (KeyPresent /\ pc[p] # "idle") =>
         sent[p] = <<Request(IF envKey # "" THEN envKey ELSE storage.item, arg[p])>>
    /\ (pc[p] = "done" /\ response[p].kind = "http") =>
         \E env \in ScrapeEnvs :
           /\ outcome[p] = Fulfilled(AfterResponse(arg[p], response[p], env).result)
           /\ normCalls[p] = AfterResponse(arg[p], response[p], env).normCalls

\* two invocations for the same URL are in progress at once, each with its
\* own request sent, and one has returned a success while the other has
\* received a failure of the service
C19_Witness ==
  \E p, q \in Procs :
    /\ p # q
    /\ arg[p] = SiteUrl /\ arg[q] = SiteUrl
    /\ Len(sent[p]) = 1 /\ Len(sent[q]) = 1
    /\ pc[p] = "done" /\ outcome[p].state = "fulfilled" /\ outcome[p].value.success
    /\ normCalls[p] = 1
    /\ pc[q] = "reading" /\ response[q].status = 401

\* C20: when parseFirecrawlData throws on the payload of a successful
\* response, scrapeWebsite does not return a failure: the scrape succeeds
\* with no extracted content.
C20_NormalizerThrowNotFatal ==
  \A p \in Procs :
    (/\ Answered(p)
     /\ response[p].ok /\ response[p].body.json = "object" /\ response[p].body.success
     /\ \E env \in ScrapeEnvs :
          parseFirecrawlData(response[p].body.data, arg[p], env).threw) =>
      /\ outcome[p].state = "fulfilled"
      /\ outcome[p].value.success
      /\ outcome[p].value.data.text = <<>>
      /\ outcome[p].value.data.images = <<>>
      /\ outcome[p].value.data.pdfs = <<>>

(***************************************************************************)
(* Properties of parseFirecrawlData (under SpecNorm)                       *)
(***************************************************************************)
\* s is an absolute URL: it parses without a base
IsAbsoluteUrl(s) == NewUrl(s).ok

\* v is no URL and resolves to none against the origin
Malformed(v, origin) == ~NewUrl(v).ok /\ ~NewUrlBase(v, origin).ok

\* the normalizer has returned, in raw-HTML mode
RawDone ==
  /\ normOut.done
  /\ normIn.data.kind = "object"
  /\ ~normIn.data.hasExtracted
  /\ ~normOut.out.threw

\* the values of the attribute name of the elements tag of a document
AttrValues(doc, tag, name) ==
  {GetAttr(Descendants(doc)[k].attrs, name) :
     k \in {j \in DOMAIN Descendants(doc) : Descendants(doc)[j].tag = tag}}

\* C8: every src in images and every href in pdfs of a result the normalizer
\* returns is an absolute URL, in structured mode and in raw-HTML mode: a
\* value that is a URL or resolves to one against the origin is in the result
\* as an absolute URL (a value that does neither is the matter of C9).
C8_AllAbsolute ==
  (normOut.done /\ ~normOut.out.threw) =>
    /\ \A k \in DOMAIN normOut.out.value.images :
         \/ IsAbsoluteUrl(normOut.out.value.images[k].src)
         \/ Malformed(normOut.out.value.images[k].src, normIn.url)
    /\ \A k \in DOMAIN normOut.out.value.pdfs :
         \/ IsAbsoluteUrl(normOut.out.value.pdfs[k].href)
         \/ Malformed(normOut.out.value.pdfs[k].href, normIn.url)

\* C9: in raw-HTML mode no entry of images carries the src of an image tag
\* that is malformed, and no entry of pdfs the href of an anchor that is
\* malformed: such items are omitted.
C9_MalformedOmitted ==
  RawDone =>
    /\ \A k \in DOMAIN normOut.out.value.images :
         ~(/\ normOut.out.value.images[k].src
                \in AttrValues(ChosenDoc(normIn.data), "img", "src")
           /\ Malformed(normOut.out.value.images[k].src, normIn.url))
    /\ \A k \in DOMAIN normOut.out.value.pdfs :
         ~(/\ normOut.out.value.pdfs[k].href
                \in AttrValues(ChosenDoc(normIn.data), "a", "href")
           /\ Malformed(normOut.out.value.pdfs[k].href, normIn.url))

\* the document without its node i
Without(doc, i) == SubSeq(doc, 1, i - 1) \o SubSeq(doc, i + 1, Len(doc))

\* the try block of the loop turn of an image tag or PDF anchor of node n throws
ItemThrows(n, url) ==
  \/ \E k \in DOMAIN ImgTags(SerializeNodes(<<n>>), 1) :
       ImageTry(ImgTags(SerializeNodes(<<n>>), 1)[k], url).threw
  \/ \E k \in DOMAIN LinkMatches(SerializeNodes(<<n>>), 1) :
       /\ IsPdfHref(LinkMatches(SerializeNodes(<<n>>), 1)[k].href)
       /\ PdfTry(LinkMatches(SerializeNodes(<<n>>), 1)[k], url).threw

\* what the normalizer returns in raw-HTML mode for the document doc, with the
\* title, description, origin and platform of the run
RawOut(doc) ==
  parseFirecrawlData(RawPayload(doc, <<>>, normIn.data.title, normIn.data.description),
                     normIn.url, normIn.env)

\* C10: in raw-HTML mode parseFirecrawlData does not throw and scrapeWebsite
\* returns a success, whatever the src and href values of the document; an
\* image tag or PDF anchor whose URL handling throws is omitted, and the
\* images, the pdfs and the text are those of the document without it (the
\* text, when the item has no text of its own).
C10_ItemFailureStaysLocal ==
  (normOut.done /\ normIn.data.kind = "object" /\ ~normIn.data.hasExtracted) =>
    /\ ~normOut.out.threw
    /\ normOut.result.success
    /\ \A i \in DOMAIN ChosenDoc(normIn.data) :
         ItemThrows(ChosenDoc(normIn.data)[i], normIn.url) =>
           /\ normOut.out.value.images
                = RawOut(Without(ChosenDoc(normIn.data), i)).value.images
           /\ normOut.out.value.pdfs
                = RawOut(Without(ChosenDoc(normIn.data), i)).value.pdfs
           /\ TextContent(<<ChosenDoc(normIn.data)[i]>>) = ""
                => normOut.out.value.text
                     = RawOut(Without(ChosenDoc(normIn.data), i)).value.text

\* the document with an image that resolves to no URL among items that do has
\* been normalized: the image is omitted, the other items are returned
C10_Witness ==
  /\ RawDone
  /\ ChosenDoc(normIn.data) = MixedDoc
  /\ normIn.url = SiteUrl
  /\ ItemThrows(MixedDoc[2], SiteUrl)
  /\ normOut.result.success
  /\ normOut.out.value.text = <<"Hello world!">>
  /\ normOut.out.value.images = <<[src |-> "https://site.test/logo.png", alt |-> "Image"]>>
  /\ normOut.out.value.pdfs = <<[href |-> "https://site.test/doc.pdf", title |-> "Doc"]>>

\* the strings of a sequence
Range(seq) == {seq[k] : k \in DOMAIN seq}

\* C11: in raw-HTML mode the text of the result contains no two equal
\* strings: a fragment that occurs in two places of the payload is in text
\* once.
C11_TextUnique ==
  RawDone =>
    \A i, j \in DOMAIN normOut.out.value.text :
      i # j => normOut.out.value.text[i] # normOut.out.value.text[j]

\* the trimmed texts of the content elements of the document of the run
ElementTexts ==
  {Trim(TextContent(ContentElements(ChosenDoc(normIn.data))[k].kids)) :
     k \in DOMAIN ContentElements(ChosenDoc(normIn.data))}

\* C12: in raw-HTML mode, with a working DOM, the text of an element is kept
\* exactly when its trimmed length is at least 10: a trimmed text of 10 or
\* more characters is in text, a shorter one is not (unless it is the title
\* or the description of the payload, which are in text as they are).
C12_KeptFromTenCharacters ==
  (RawDone /\ normIn.env.dom = "ok") =>
    \A t \in ElementTexts :
      /\ Len(t) >= 10 => t \in Range(normOut.out.value.text)
      /\ (Len(t) < 10 /\ t \notin {normIn.data.title, normIn.data.description})
           => t \notin Range(normOut.out.value.text)

\* C13: in structured mode text is extractedData.title (if not empty), then
\* extractedData.description (if not empty), then every element of
\* extractedData.textContent, in order and unchanged: nothing is deduplicated
\* and nothing is dropped for its length.
C13_StructuredTextAsDelivered ==
  (normOut.done /\ normIn.data.kind = "object" /\ normIn.data.hasExtracted) =>
    /\ ~normOut.out.threw
    /\ normOut.out.value.text =
         (IF normIn.data.extractedData.title # ""
            THEN <<normIn.data.extractedData.title>> ELSE <<>>)
           \o (IF normIn.data.extractedData.description # ""
                 THEN <<normIn.data.extractedData.description>> ELSE <<>>)
           \o normIn.data.extractedData.textContent

\* the extraction with textContent [A, A, B] and a title has been normalized
C13_Witness ==
  /\ normOut.done
  /\ normIn.data.hasExtracted
  /\ normIn.data.extractedData.title = "Site"
  /\ normIn.data.extractedData.textContent = <<"A", "A", "B">>
  /\ normOut.out.value.text = <<"Site", "A", "A", "B">>

\* C14: in raw-HTML mode the entry of a PDF anchor whose inner text is not
\* empty after trimming has that text as its title (the title is derived from
\* the file name only for an anchor without inner text).
C14_LinkTextIsTitle ==
  RawDone =>
    \A k \in DOMAIN Descendants(ChosenDoc(normIn.data)) :
      LET a == Descendants(ChosenDoc(normIn.data))[k]
      IN  (/\ a.tag = "a"
           /\ IsPdfHref(GetAttr(a.attrs, "href"))
           /\ Trim(TextContent(a.kids)) # ""
           /\ AbsoluteUrl(GetAttr(a.attrs, "href"), normIn.url).ok) =>
            [href |-> AbsoluteUrl(GetAttr(a.attrs, "href"), normIn.url).href,
             title |-> Trim(TextContent(a.kids))]
              \in Range(normOut.out.value.pdfs)

\* C17: the raw HTML of the end-to-end scenario, with origin
\* https://site.test/page and no title or description in the payload,
\* normalizes to text = ["Welcome"], images = [{src:
\* https://site.test/logo.png, alt: Image}] and pdfs = [{href:
\* https://site.test/doc.pdf, title: Report}].
C17_EndToEnd ==
  (/\ normOut.done
   /\ normIn.data = RawPayload(<<>>, ScenarioDoc, "", "")
   /\ normIn.url = SiteUrl
   /\ normIn.env.dom = "ok") =>
    /\ ~normOut.out.threw
    /\ normOut.out.value.text = <<"Welcome">>
    /\ normOut.out.value.images =
         <<[src |-> "https://site.test/logo.png", alt |-> "Image"]>>
    /\ normOut.out.value.pdfs =
         <<[href |-> "https://site.test/doc.pdf", title |-> "Report"]>>

(***************************************************************************)
(* Properties of formatFilenameAsTitle (under SpecTitle)                   *)
(***************************************************************************)
\* the words of s: its maximal runs of characters outside seps, in order
RECURSIVE Pieces(_, _)
Pieces(s, seps) ==
  IF s = "" THEN <<>>
  ELSE IF Ch(s, 1) \in seps THEN Pieces(From(s, 2), seps)
  ELSE <<Upto(s, FirstIn(s, seps, 1))>> \o Pieces(From(s, FirstIn(s, seps, 1)), seps)

\* the file name without a trailing .pdf, in any case
Stem(f) ==
  IF Len(f) >= 4 /\ ToLowerCase(SubSeq(f, Len(f) - 3, Len(f))) = ".pdf"
    THEN SubSeq(f, 1, Len(f) - 4)
  ELSE f

\* the words of the file name: what hyphens, underscores, periods and spaces
\* separate in its stem
FileWords(f) == Pieces(Stem(f), {"-", "_", ".", " "})

\* the stem ends in a name followed by three number groups: its last three
\* words are numbers, nothing follows them, and at least one character and a
\* separator precede them
EndsInTriplet(f) ==
  /\ Len(FileWords(f)) >= 3
  /\ \A k \in (Len(FileWords(f)) - 2)..Len(FileWords(f)) : AllIn(FileWords(f)[k], DigitSet)
  /\ Ch(Stem(f), Len(Stem(f))) \in DigitSet
  /\ \/ Len(FileWords(f)) >= 4
     \/ /\ Ch(Stem(f), 1) \in {"-", "_", ".", " "}
        /\ Ch(Stem(f), 2) \in {"-", "_", ".", " "}

\* the same words, whatever the case of their letters
SameWords(ws, vs) ==
  /\ Len(ws) = Len(vs)
  /\ \A k \in DOMAIN ws : ToLowerCase(ws[k]) = ToLowerCase(vs[k])

\* C15: the title formatFilenameAsTitle returns consists of the words of the
\* file name without its trailing .pdf (in any case), with hyphens,
\* underscores and periods taken as spaces; exactly when the name ends in a
\* name followed by three space-separated number groups, these three groups
\* are dropped, and fewer trailing number groups are kept.
C15_DateTripletDropped ==
  fmt.done =>
    /\ \A k \in 1..Len(fmt.title) : Ch(fmt.title, k) \notin {"-", "_", "."}
    /\ IF EndsInTriplet(fmt.filename)
         THEN SameWords(Pieces(fmt.title, {" "}),
                        SubSeq(FileWords(fmt.filename), 1,
                               Len(FileWords(fmt.filename)) - 3))
       ELSE SameWords(Pieces(fmt.title, {" "}), FileWords(fmt.filename))
    /\ fmt.filename = "annual-report-2023.pdf" => fmt.title = "Annual Report 2023"

\* the file name with a date has been formatted, without the date
C15_Witness ==
  /\ fmt.done
  /\ fmt.filename = "Erie-Settle-8-18-11.pdf"
  /\ EndsInTriplet(fmt.filename)
  /\ fmt.title = "Erie Settle"

\* C16: every word of the title is the word of the file name as it is when
\* that word has more than one character and no lower-case letter, and
\* otherwise that word with its first character in upper case and the others
\* in lower case; the title neither begins nor ends with white space.
C16_WordsTitleCased ==
  fmt.done =>
    /\ Ch(fmt.title, 1) \notin WhiteSpace
    /\ Ch(fmt.title, Len(fmt.title)) \notin WhiteSpace
    /\ Len(Pieces(fmt.title, {" "})) <= Len(FileWords(fmt.filename))
    /\ \A k \in DOMAIN Pieces(fmt.title, {" "}) :
         Pieces(fmt.title, {" "})[k] =
           IF /\ Len(FileWords(fmt.filename)[k]) > 1
              /\ \A i \in 1..Len(FileWords(fmt.filename)[k]) :
                   Ch(FileWords(fmt.filename)[k], i) \notin LowerSet
             THEN FileWords(fmt.filename)[k]
           ELSE ToUpperCase(Ch(FileWords(fmt.filename)[k], 1))
                  \o ToLowerCase(From(FileWords(fmt.filename)[k], 2))

\* a file name of an acronym and of a word in mixed case has been formatted
C16_Witness ==
  /\ fmt.done
  /\ fmt.filename = "iOS guide-2023.PDF"
  /\ fmt.title = "Ios Guide 2023"

C21_QueryAndFragmentStripped ==
  RawDone =>
    \A k \in DOMAIN normOut.out.value.images :
      /\ ~Contains(normOut.out.value.images[k].src, "?")
      /\ ~Contains(normOut.out.value.images[k].src, "#")

\* the strings of the text nodes below a node list
RECURSIVE TextsIn(_)
TextsIn(nodes) ==
  IF nodes = <<>> THEN {}
  ELSE (IF Head(nodes).tag = "#text" THEN {Head(nodes).text}
        ELSE TextsIn(Head(nodes).kids))
         \cup TextsIn(Tail(nodes))

\* those of them that lie inside a script, style, noscript, iframe, nav,
\* header or footer element
RECURSIVE HiddenTexts(_)
HiddenTexts(nodes) ==
  IF nodes = <<>> THEN {}
  ELSE (IF Head(nodes).tag \in {"script", "style", "noscript", "iframe", "nav",
                                "header", "footer"}
          THEN TextsIn(Head(nodes).kids)
        ELSE HiddenTexts(Head(nodes).kids))
         \cup HiddenTexts(Tail(nodes))

\* text without the title and the description of the payload before it
ElementPart ==
  SubSeq(normOut.out.value.text,
         (IF normIn.data.title # "" THEN 1 ELSE 0)
           + (IF normIn.data.description # "" THEN 1 ELSE 0) + 1,
         Len(normOut.out.value.text))

\* the elements below a node list that are not, and lie in no, script, style,
\* noscript, iframe, nav, header or footer element, in document order
RECURSIVE VisibleElements(_)
VisibleElements(nodes) ==
  IF nodes = <<>> THEN <<>>
  ELSE (IF Head(nodes).tag \in {"#text", "script", "style", "noscript", "iframe",
                                "nav", "header", "footer"}
          THEN <<>>
        ELSE <<Head(nodes)>> \o VisibleElements(Head(nodes).kids))
         \o VisibleElements(Tail(nodes))

\* the main-content containers among them
Containers == SelectSeq(VisibleElements(ChosenDoc(normIn.data)), IsMainContent)

\* the nodes text is collected from: the children of the first container, of
\* the body when there is none
Scope == IF Containers = <<>> THEN ChosenDoc(normIn.data) ELSE Head(Containers).kids

\* C22 as stated: in raw-HTML mode no entry of text holds text from inside a
\* script, style, noscript, iframe, nav, header or footer element.
C22_NoTextFromNonContent ==
  RawDone =>
    \A t \in Range(ElementPart), h \in HiddenTexts(ChosenDoc(normIn.data)) :
      ~Contains(t, h)

\* C22 as amended: in raw-HTML mode, when the DOM calls do not throw, no
\* element text holds text from inside a script, style, noscript, iframe,
\* nav, header or footer element; every element text lies within the first
\* main-content container that is in no such element, within the body when
\* there is none; and every text of more than 10 characters there that is in
\* no such element is part of an element text.
C22_ContentFromContainerOnly ==
  (RawDone /\ normIn.env.dom = "ok") =>
    /\ \A t \in Range(ElementPart), h \in HiddenTexts(ChosenDoc(normIn.data)) :
         ~Contains(t, h)
    /\ \A t \in Range(ElementPart) : Contains(TextContent(Scope), t)
    /\ \A x \in TextsIn(Scope) \ HiddenTexts(Scope) :
         Len(Trim(x)) > 10 => \E t \in Range(ElementPart) : Contains(t, Trim(x))

\* a document with a block outside its main container, and a script and a
\* footer inside it, has been normalized to the paragraph of the container
C22_Witness ==
  /\ RawDone
  /\ normIn.env.dom = "ok"
  /\ Len(Containers) = 1
  /\ Head(Containers).tag = "main"
  /\ "First block text" \in TextsIn(ChosenDoc(normIn.data)) \ TextsIn(Scope)
  /\ HiddenTexts(Scope) = {"var hidden = 1;", "Nested block text"}
  /\ normOut.out.value.text = <<"Second block text">>

\* C23: when the DOM calls throw in raw-HTML mode, at whatever point,
\* parseFirecrawlData does not throw, and what text holds beyond the title
\* and the description is at most one string: the markup with its tags
\* replaced and its white space collapsed, nothing when that is empty.
C23_FallbackOneBlob ==
  (/\ normOut.done
   /\ normIn.data.kind = "object"
   /\ ~normIn.data.hasExtracted
   /\ normIn.env.dom # "ok") =>
    /\ ~normOut.out.threw
    /\ Len(ElementPart) <= 1

\* C25: when the payload has an extractedData object, also one without
\* fields, the result is built from extractedData alone: it is the result for
\* the payload without html, rawHtml, title and description, and with an
\* extractedData without fields it has the default title and description and no
\* text, images or pdfs.
C25_StructuredAlone ==
  (normOut.done /\ normIn.data.kind = "object" /\ normIn.data.hasExtracted) =>
    /\ ~normOut.out.threw
    /\ normOut.out.value.title = OrElse(normIn.data.extractedData.title, "Scraped Content")
    /\ normOut.out.value.description
         = OrElse(normIn.data.extractedData.description, "Content extracted from website")
    /\ normOut.out.value.text
         = PushIf(normIn.data.extractedData.title)
             \o PushIf(normIn.data.extractedData.description)
             \o normIn.data.extractedData.textContent
    /\ normOut.out.value.images = normIn.data.extractedData.images
    /\ normOut.out.value.pdfs = normIn.data.extractedData.pdfLinks

\* a payload with an extractedData without fields, markup with images, and a
\* top-level title and description has been normalized to an empty result
C25_Witness ==
  /\ normOut.done
  /\ normIn.data.hasExtracted
  /\ normIn.data.extractedData = NoExtracted
  /\ normIn.data.title = "Top"
  /\ AttrValues(normIn.data.html, "img", "src") # {}
  /\ AttrValues(normIn.data.rawHtml, "img", "src") # {}
  /\ normOut.out.value.title = "Scraped Content"
  /\ normOut.out.value.text = <<>>
  /\ normOut.out.value.images = <<>>
  /\ normOut.out.value.pdfs = <<>>

\* C27: in raw-HTML mode the title and the description of the payload, when
\* not empty, are the first entries of text, the title first, whatever their
\* length; the entries after them are the element texts of the payload
\* without title and description: an element text equal to one of them is
\* not dropped.
C27_TitleAndDescriptionFirst ==
  RawDone =>
    normOut.out.value.text
      = PushIf(normIn.data.title) \o PushIf(normIn.data.description)
          \o parseFirecrawlData([normIn.data EXCEPT !.title = "", !.description = ""],
                                normIn.url, normIn.env).value.text

\* a payload whose title equals the text of a paragraph has been normalized:
\* the string is in text twice
C27_Witness ==
  /\ RawDone
  /\ normIn.env.dom = "ok"
  /\ normIn.data.title = "Hello world!"
  /\ normOut.out.value.text = <<"Hello world!", "Hello world!">>

\* a title of five characters is the first entry, the description the second
C27_ShortTitleWitness ==
  /\ RawDone
  /\ normIn.data.title = "Title"
  /\ SubSeq(normOut.out.value.text, 1, 2) = <<"Title", "A description">>

(***************************************************************************)
(* Further properties of scrapeWebsite (under Spec)                        *)
(***************************************************************************)
\* C24: getApiKey returns VITE_FIRECRAWL_API_KEY whenever it is not empty,
\* whatever the local storage holds or does, and the stored value only when
\* the build-time value is empty: the key of an invocation, and of the request
\* it sends, is then that value.
C24_BuildKeyFirst ==
  \A p \in Procs :
    pc[p] # "idle" =>
      IF envKey # ""
        THEN /\ apiKey[p] = envKey
             /\ sent[p] # <<>>
             /\ sent[p][1].authorization = "Bearer " \o envKey
      ELSE ~storage.blocked =>
             /\ apiKey[p] = storage.item
             /\ sent[p] # <<>> => sent[p][1].authorization = "Bearer " \o storage.item

\* an invocation runs with the build-time key while a key is stored
C24_Witness ==
  \E p \in Procs :
    /\ pc[p] # "idle"
    /\ envKey = "fc-env-key"
    /\ storage.item = "fc-local-key"
    /\ apiKey[p] = "fc-env-key"

\* an invocation runs with the stored key, there being no build-time key
C24_StoredKeyWitness ==
  \E p \in Procs :
    /\ pc[p] # "idle"
    /\ envKey = ""
    /\ apiKey[p] = "fc-local-key"

\* the URL the reference v of a document resolves to against the url base
Resolved(v, base) == NewUrlBase(StripSrc(v), base)

\* C26: in a successful scrape the url of the result, the URL in the body of
\* the request, and the base the relative image and PDF references of the
\* markup are resolved against are all the url argument.
C26_OneUrlThroughout ==
  \A p \in Procs :
    (HasReturned(p) /\ outcome[p].value.success) =>
      /\ outcome[p].value.data.url = arg[p]
      /\ Len(sent[p]) = 1
      /\ sent[p][1].url = arg[p]
      /\ ~response[p].body.data.hasExtracted =>
           /\ \A v \in AttrValues(ChosenDoc(response[p].body.data), "img", "src") :
                (~StartsWith(v, "http") /\ Resolved(v, arg[p]).ok) =>
                  \E k \in DOMAIN outcome[p].value.data.images :
                    outcome[p].value.data.images[k].src = Href(Resolved(v, arg[p]))
           /\ \A v \in AttrValues(ChosenDoc(response[p].body.data), "a", "href") :
                (~StartsWith(v, "http") /\ Resolved(v, arg[p]).ok) =>
                  \E k \in DOMAIN outcome[p].value.data.pdfs :
                    outcome[p].value.data.pdfs[k].href = Href(Resolved(v, arg[p]))

\* a scrape has succeeded with a relative image reference and a relative PDF
\* reference resolved against its url argument
C26_Witness ==
  \E p \in Procs :
    /\ HasReturned(p)
    /\ outcome[p].value.success
    /\ arg[p] = SiteUrl
    /\ "/logo.png" \in AttrValues(ChosenDoc(response[p].body.data), "img", "src")
    /\ outcome[p].value.data.images[1].src = "https://site.test/logo.png"
    /\ outcome[p].value.data.pdfs[1].href = "https://site.test/doc.pdf"

\* C28: a response with a success status and success = true but without data
\* never gives a success: parseFirecrawlData throws and scrapeWebsite returns
\* success = false with the message of the exception.
C28_NoDataIsFailure ==
  \A p \in Procs :
    (/\ Answered(p)
     /\ response[p].ok /\ response[p].body.json = "object" /\ response[p].body.success
     /\ response[p].body.data.kind = "undefined") =>
      /\ outcome[p]
           = Fulfilled(Fail("Cannot read properties of undefined (reading 'extractedData')"))
      /\ normCalls[p] = 1

\* an invocation has returned the failure for a response without data
C28_Witness ==
  \E p \in Procs :
    /\ Answered(p)
    /\ response[p].status = 200
    /\ response[p].body.success
    /\ response[p].body.data = NoData
    /\ HasReturned(p)
    /\ ~outcome[p].value.success

(***************************************************************************)
(* Properties of the page and the display (under SpecPage)                 *)
(***************************************************************************)
\* C29: as long as the form has started no scrape while isLoading was true,
\* isLoading is true exactly while a scrape is outstanding, between
\* handleScrapeStart and handleScrapeComplete; no result is shown while
\* isLoading is true, the previous one being cleared at the start; and the
\* result shown while isLoading is false is the one the last
\* handleScrapeComplete delivered, none before the first.
C29_LoadingWhileOutstanding ==
  form.inTurn =>
    /\ page.isLoading <=> form.outstanding > 0
    /\ form.outstanding <= 1
    /\ page.isLoading => page.scrapedData = <<>>
    /\ ~page.isLoading => page.scrapedData = form.delivered

\* a second scrape is outstanding: the result of the first is no longer shown
C29_Witness ==
  /\ form.inTurn
  /\ form.outstanding = 1
  /\ form.delivered # <<>>
  /\ page.isLoading
  /\ page.scrapedData = <<>>

\* the second of two scrapes has completed: its result is shown
C29_DeliveredWitness ==
  /\ form.inTurn
  /\ form.outstanding = 0
  /\ ~page.isLoading
  /\ page.scrapedData # <<>>
  /\ page.scrapedData = form.delivered

\* C30: an invocation of handleSaveAs writes the export at most once.
\* Without showSaveFilePicker there is one browser download; when the picker
\* save succeeds there is the file and no browser download; when an awaited
\* step fails with an error other than AbortError there is one browser
\* download and no file; with AbortError there is neither.
C30_SavedAtMostOnce ==
  /\ save.saved + save.downloads <= 1
  /\ save.pc = "done" =>
       /\ save.saved = (IF save.supported /\ save.error = "" THEN 1 ELSE 0)
       /\ save.downloads
            = (IF ~save.supported \/ save.error \notin {"", "AbortError"} THEN 1 ELSE 0)

\* write was rejected with an error that is no AbortError, and the export
\* was downloaded once
C30_Witness ==
  /\ save.pc = "done"
  /\ save.supported
  /\ save.failedAt = "writing"
  /\ save.error = "NotAllowedError"
  /\ save.saved = 0
  /\ save.downloads = 1
  /\ save.toasts = <<"Save failed", "Downloaded!">>

\* the user has dismissed the picker: nothing is saved, nothing downloaded
C30_CancelWitness ==
  /\ save.pc = "done"
  /\ save.failedAt = "picking"
  /\ save.error = "AbortError"
  /\ save.saved = 0
  /\ save.downloads = 0

=============================================================================
